---- MODULE Spec2Model ----
(***************************************************************************)
(* Login-telemetry bot detection: TypingParser (pattern decoder and        *)
(* statistics), AutomationDetector (signal catalog and scoring engine)     *)
(* and the legacy TypingAnalyzer.                                          *)
(*                                                                         *)
(* JavaScript values are tagged records ([t |-> "number", v |-> 3]), a     *)
(* string is the sequence of its characters, an exception is an outcome    *)
(* of kind "throw".  Arithmetic the code does in IEEE doubles is done here *)
(* exactly, on integers and ratios of integers.                            *)
(***************************************************************************)
EXTENDS Integers, Sequences, FiniteSets, TLC

VARIABLES
  thresholds,  \* AutomationDetector.thresholds, the process-wide table
  request,     \* the stats object the caller holds
  call,        \* the call made with it: operation, parser argument, ambient TypingParser
  outcome      \* what the call produced: a returned value or a thrown error

vars == <<thresholds, request, call, outcome>>

----------------------------------------------------------------------------
(* JavaScript values *)

Undef == [t |-> "undefined"]
NaN == [t |-> "nan"]
Num(n) == [t |-> "number", v |-> n]
Bool(b) == [t |-> "boolean", v |-> b]
Str(s) == [t |-> "string", v |-> s]
Arr(a) == [t |-> "array", v |-> a]

\* ToBoolean: undefined, NaN, 0, false and "" are falsy.
Truthy(x) ==
  CASE x.t = "undefined" -> FALSE
    [] x.t = "nan" -> FALSE
    [] x.t = "number" -> x.v # 0
    [] x.t = "boolean" -> x.v
    [] x.t = "string" -> x.v # <<>>
    [] OTHER -> TRUE

\* a || b
OrElse(a, b) == IF Truthy(a) THEN a ELSE b

\* x > n and x < n for a number or an absent value (undefined compares false).
Gt(x, n) == x.t = "number" /\ x.v > n
Lt(x, n) == x.t = "number" /\ x.v < n

\* obj.field, undefined when the object has no such property.
Get(obj, f) == IF f \in DOMAIN obj THEN obj[f] ELSE Undef

Max(a, b) == IF a >= b THEN a ELSE b
Min(a, b) == IF a <= b THEN a ELSE b
Abs(a) == IF a < 0 THEN -a ELSE a

RECURSIVE SumSeq(_)
SumSeq(s) == IF s = <<>> THEN 0 ELSE Head(s) + SumSeq(Tail(s))

RECURSIVE MaxSeq(_)
MaxSeq(s) == IF Len(s) = 1 THEN s[1] ELSE Max(Head(s), MaxSeq(Tail(s)))

RECURSIVE MinSeq(_)
MinSeq(s) == IF Len(s) = 1 THEN s[1] ELSE Min(Head(s), MinSeq(Tail(s)))

\* A filter that lets the zeros through.
RECURSIVE FilterNonNegative(_)
FilterNonNegative(s) ==
  IF s = <<>> THEN <<>>
  ELSE IF Head(s) >= 0 THEN <<Head(s)>> \o FilterNonNegative(Tail(s))
  ELSE FilterNonNegative(Tail(s))

RECURSIVE FilterPositive(_)
FilterPositive(s) ==
  IF s = <<>> THEN <<>>
  ELSE IF Head(s) > 0 THEN <<Head(s)>> \o FilterPositive(Tail(s))
  ELSE FilterPositive(Tail(s))

\* Math.round(num / den) for num >= 0, den > 0 (halves round up).
RoundDiv(num, den) == (2 * num + den) \div (2 * den)

----------------------------------------------------------------------------
(* The threshold table *)

ThresholdTable ==
  [seekTime |-> [botMax |-> 50, humanMin |-> 80, tooFast |-> 30, uniformStdMax |-> 20],
   pressTime |-> [botMax |-> 20, humanMin |-> 40, uniformStdMax |-> 10],
   trajectory |-> [minPoints |-> 3, minDistance |-> 50],
   timing |-> [userToPassMin |-> 300, passToLoginMin |-> 100],
   \* the fractional thresholds in hundredths: 0.3 is 30, 0.15 is 15
   antiBot |-> [seekTimeMinRange |-> 100, pressTimeMinRange |-> 30,
                skewnessThreshold |-> 30, kurtosisMin |-> -100, kurtosisMax |-> 300,
                roundNumberRatio |-> 30, consecutiveSimilarMax |-> 3,
                trajectorySmoothMax |-> 80, trajectoryCorrectionMin |-> 10,
                trajectoryIntervalCVMax |-> 30, cvMin |-> 15, cvMax |-> 35],
   decision |-> [botProbabilityThreshold |-> 70]]

\* TypingAnalyzer.thresholds: the legacy table (its ime entry is never read).
LegacyThresholdTable ==
  [seekTime |-> [botMax |-> 50, humanMin |-> 80, tooFast |-> 30, uniformStdMax |-> 20],
   pressTime |-> [botMax |-> 20, humanMin |-> 40, uniformStdMax |-> 10],
   trajectory |-> [minPoints |-> 3, minDistance |-> 50],
   timing |-> [userToPassMin |-> 300, passToLoginMin |-> 100]]

----------------------------------------------------------------------------
(* Exact arithmetic on naturals beyond 2^31: little-endian limbs base 10000, *)
(* no leading zero limb, <<>> is 0.                                          *)

RECURSIVE BigOf(_)
BigOf(n) == IF n = 0 THEN <<>> ELSE <<n % 10000>> \o BigOf(n \div 10000)

RECURSIVE BigAddCarry(_, _, _)
BigAddCarry(a, b, c) ==
  IF a = <<>> /\ b = <<>> THEN BigOf(c)
  ELSE LET x == (IF a = <<>> THEN 0 ELSE Head(a)) + (IF b = <<>> THEN 0 ELSE Head(b)) + c
       IN <<x % 10000>> \o BigAddCarry(IF a = <<>> THEN <<>> ELSE Tail(a),
                                       IF b = <<>> THEN <<>> ELSE Tail(b),
                                       x \div 10000)

BigAdd(a, b) == BigAddCarry(a, b, 0)

\* a * m + c for one limb m > 0
RECURSIVE BigScale(_, _, _)
BigScale(a, m, c) ==
  IF a = <<>> THEN BigOf(c)
  ELSE LET x == Head(a) * m + c
       IN <<x % 10000>> \o BigScale(Tail(a), m, x \div 10000)

RECURSIVE BigMul(_, _)
BigMul(a, b) ==
  IF a = <<>> \/ b = <<>> THEN <<>>
  ELSE LET low == IF Head(b) = 0 THEN <<>> ELSE BigScale(a, Head(b), 0)
           high == BigMul(a, Tail(b))
       IN BigAdd(low, IF high = <<>> THEN <<>> ELSE <<0>> \o high)

RECURSIVE BigLeqFrom(_, _, _)
BigLeqFrom(a, b, i) ==
  IF i = 0 THEN TRUE
  ELSE IF a[i] # b[i] THEN a[i] < b[i]
  ELSE BigLeqFrom(a, b, i - 1)

BigLeq(a, b) ==
  IF Len(a) # Len(b) THEN Len(a) < Len(b) ELSE BigLeqFrom(a, b, Len(a))

BigLess(a, b) == ~BigLeq(b, a)

BigSquare(k) == BigMul(BigOf(k), BigOf(k))

RECURSIVE BigTrim(_)
BigTrim(a) == IF a # <<>> /\ a[Len(a)] = 0 THEN BigTrim(SubSeq(a, 1, Len(a) - 1)) ELSE a

RECURSIVE BigSubBorrow(_, _, _)
BigSubBorrow(a, b, borrow) ==
  IF a = <<>> THEN <<>>
  ELSE LET x == Head(a) - (IF b = <<>> THEN 0 ELSE Head(b)) - borrow
       IN <<IF x < 0 THEN x + 10000 ELSE x>>
          \o BigSubBorrow(Tail(a), IF b = <<>> THEN <<>> ELSE Tail(b), IF x < 0 THEN 1 ELSE 0)

\* a - b for a >= b
BigSub(a, b) == BigTrim(BigSubBorrow(a, b, 0))

\* The rounding tests on k >= 1 for the ratio r = num / den >= 0:
\*   "round"     k - 1/2 <= r          (2k - 1) * den <= 2 * num
\*   "sqrt"      k - 1/2 <= sqrt(r)    (2k - 1)^2 * den <= 4 * num
\*   "sqrtDown"  k - 1/2 <  sqrt(r)    (2k - 1)^2 * den <  4 * num
\*   "sqrtFloor" k       <= sqrt(r)    k^2 * den <= num
RoundOk(mode, k, num, den) ==
  CASE mode = "round" -> BigLeq(BigMul(BigOf(2 * k - 1), den), BigScale(num, 2, 0))
    [] mode = "sqrt" -> BigLeq(BigMul(BigSquare(2 * k - 1), den), BigScale(num, 4, 0))
    [] mode = "sqrtDown" -> BigLess(BigMul(BigSquare(2 * k - 1), den), BigScale(num, 4, 0))
    [] mode = "sqrtFloor" -> BigLeq(BigMul(BigSquare(k), den), num)

\* The first power of two failing the test, from k on.
RECURSIVE FirstFail(_, _, _, _)
FirstFail(mode, k, num, den) ==
  IF RoundOk(mode, k, num, den) THEN FirstFail(mode, 2 * k, num, den) ELSE k

\* The largest k in lo..hi passing the test, which is monotone and holds at lo.
RECURSIVE LargestK(_, _, _, _, _)
LargestK(lo, hi, mode, num, den) ==
  IF lo >= hi THEN lo
  ELSE LET mid == (lo + hi + 1) \div 2
       IN IF RoundOk(mode, mid, num, den)
          THEN LargestK(mid, hi, mode, num, den)
          ELSE LargestK(lo, mid - 1, mode, num, den)

RoundBy(mode, num, den) == LargestK(0, FirstFail(mode, 1, num, den), mode, num, den)

\* Math.round(num / den) for naturals in limbs, den > 0.
BigRound(num, den) == RoundBy("round", num, den)

\* Math.round(Math.sqrt(num / den))
BigRoundSqrt(num, den) == RoundBy("sqrt", num, den)

\* -Math.round(-Math.sqrt(num / den)): a half rounds towards zero.
BigRoundSqrtDown(num, den) == RoundBy("sqrtDown", num, den)

\* Math.round(Math.sqrt(num / den)) for integers num >= 0, den > 0.
RoundSqrt(num, den) == BigRoundSqrt(BigOf(num), BigOf(den))

----------------------------------------------------------------------------
(* TypingParser.parsePattern and calcStats *)

\* String.prototype.split(sep) for a one-character separator.
RECURSIVE SplitFrom(_, _, _, _, _)
SplitFrom(s, sep, i, cur, acc) ==
  IF i > Len(s) THEN Append(acc, cur)
  ELSE IF s[i] = sep THEN SplitFrom(s, sep, i + 1, <<>>, Append(acc, cur))
  ELSE SplitFrom(s, sep, i + 1, Append(cur, s[i]), acc)

\* A split that drops the empty pieces.
SplitKeepingText(s, sep) == SelectSeq(SplitFrom(s, sep, 1, <<>>, <<>>), LAMBDA piece : piece # <<>>)

Split(s, sep) == SplitFrom(s, sep, 1, <<>>, <<>>)

DigitChars == <<"0", "1", "2", "3", "4", "5", "6", "7", "8", "9">>

IsDigit(c) == \E d \in 1..10 : DigitChars[d] = c

DigitValue(c) == (CHOOSE d \in 1..10 : DigitChars[d] = c) - 1

\* The value of the longest run of decimal digits of s from position i on.
RECURSIVE DigitsFrom(_, _, _)
DigitsFrom(s, i, acc) ==
  IF i <= Len(s) /\ IsDigit(s[i])
  THEN DigitsFrom(s, i + 1, 10 * acc + DigitValue(s[i]))
  ELSE acc

RECURSIVE SkipSpaces(_, _)
SkipSpaces(s, i) == IF i <= Len(s) /\ s[i] = " " THEN SkipSpaces(s, i + 1) ELSE i

\* parseInt(x): leading blanks, an optional sign, then decimal digits; NaN when no
\* digit follows, and for undefined (a missing comma-field).
ParseInt(x) ==
  IF x.t # "string" THEN NaN
  ELSE LET s == x.v
           i == SkipSpaces(s, 1)
           neg == i <= Len(s) /\ s[i] = "-"
           j == IF i <= Len(s) /\ s[i] \in {"-", "+"} THEN i + 1 ELSE i
       IN IF j <= Len(s) /\ IsDigit(s[j])
          THEN Num(IF neg THEN -DigitsFrom(s, j, 0) ELSE DigitsFrom(s, j, 0))
          ELSE NaN

\* parseInt(parts[k]) || 0
FieldOrZero(parts, k) ==
  OrElse(ParseInt(IF k <= Len(parts) THEN Str(parts[k]) ELSE Undef), Num(0)).v

DecodeSegment(seg) ==
  LET parts == Split(seg, ",")
  IN [seekTime |-> FieldOrZero(parts, 1), pressTime |-> FieldOrZero(parts, 2)]

ZeroStats == [avg |-> 0, min |-> 0, max |-> 0, std |-> 0, range |-> 0]

\* calcStats(arr): var = (n * sum(t^2) - sum(t)^2) / n^2, the population variance.
calcStats(arr) ==
  IF arr = <<>> THEN ZeroStats
  ELSE LET n == Len(arr)
           s1 == SumSeq(arr)
           s2 == SumSeq([i \in 1..n |-> arr[i] * arr[i]])
       IN [avg |-> RoundDiv(s1, n),
           min |-> MinSeq(arr),
           max |-> MaxSeq(arr),
           std |-> IF n > 1 THEN RoundSqrt(n * s2 - s1 * s1, n * n) ELSE 0,
           range |-> MaxSeq(arr) - MinSeq(arr)]

\* parsePattern(patternStr): "null", "throw" (split is not a function), or a pattern.
parsePattern(patternStr) ==
  IF ~Truthy(patternStr) THEN [kind |-> "null"]
  ELSE IF patternStr.t # "string" THEN [kind |-> "throw"]
  ELSE LET segments == Split(patternStr.v, "|")
       IN IF Len(segments) < 2 THEN [kind |-> "null"]
          ELSE LET keystrokes == [i \in 1..(Len(segments) - 1) |-> DecodeSegment(segments[i + 1])]
                   seekTimes == FilterPositive([i \in 1..Len(keystrokes) |-> keystrokes[i].seekTime])
                   pressTimes == FilterPositive([i \in 1..Len(keystrokes) |-> keystrokes[i].pressTime])
               IN [kind |-> "pattern",
                   keystrokeCount |-> Len(keystrokes),
                   seekTime |-> calcStats(seekTimes),
                   pressTime |-> calcStats(pressTimes),
                   longPauses |-> Cardinality({i \in 1..Len(seekTimes) : seekTimes[i] > 500}),
                   keystrokes |-> keystrokes,
                   raw |-> [seekTimes |-> seekTimes, pressTimes |-> pressTimes]]

----------------------------------------------------------------------------
(* TypingParser.analyzeDistribution *)

\* The longest run of adjacent values differing by less than 10.
RECURSIVE SimilarRun(_, _, _, _)
SimilarRun(values, i, currentStreak, maxConsecutiveSimilar) ==
  IF i > Len(values) THEN maxConsecutiveSimilar
  ELSE IF Abs(values[i] - values[i - 1]) < 10
       THEN SimilarRun(values, i + 1, currentStreak + 1,
                       Max(maxConsecutiveSimilar, currentStreak + 1))
       ELSE SimilarRun(values, i + 1, 1, maxConsecutiveSimilar)

RECURSIVE BigSum(_)
BigSum(s) == IF s = <<>> THEN <<>> ELSE BigAdd(Head(s), BigSum(Tail(s)))

\* The sum of |d[i]|^3 over the d[i] of one sign.
CubeSum(d, sign) ==
  BigSum([i \in 1..Len(d) |->
    IF sign * d[i] > 0 THEN BigMul(BigOf(d[i] * d[i]), BigOf(sign * d[i])) ELSE <<>>])

\* skewness in hundredths: the sign of B, and round(sqrt(B^2 * n / A^3) * 100);
\* Math.round takes a negative half towards zero.
Skewness100(positive, n, absB, A3) ==
  IF positive
  THEN BigRoundSqrt(BigScale(BigScale(BigMul(absB, absB), n, 0), 10000, 0), A3)
  ELSE -BigRoundSqrtDown(BigScale(BigScale(BigMul(absB, absB), n, 0), 10000, 0), A3)

\* The summary of a sample that is not uniform, from its sums.
Summary(values, n, s1, A, up, down, C) ==
  [valid |-> TRUE,
   mean |-> IF s1 >= 0 THEN RoundDiv(s1, n) ELSE -((2 * (-s1) + n - 1) \div (2 * n)),
   std |-> BigRoundSqrt(A, BigOf(n * n * n)),
   skewness |-> Skewness100(BigLeq(down, up), n,
                            IF BigLeq(down, up) THEN BigSub(up, down) ELSE BigSub(down, up),
                            BigMul(BigMul(A, A), A)),
   kurtosis |-> BigRound(BigScale(C, 100 * n, 0), BigMul(A, A)) - 300,
   roundNumberRatio |-> RoundDiv(100 * Cardinality({i \in 1..n : values[i] % 10 = 0}), n),
   maxConsecutiveSimilar |-> SimilarRun(values, 2, 1, 1),
   range |-> MaxSeq(values) - MinSeq(values),
   cv |-> IF s1 > 0
          THEN BigRoundSqrt(BigScale(A, 10000, 0), BigScale(BigSquare(s1), n, 0))
          ELSE 0]

\* std === 0 returns early; otherwise the sums of the powers of d.
Moments(values, n, s1, d) ==
  IF \A i \in 1..n : d[i] = 0 THEN [valid |-> TRUE, isUniform |-> TRUE]
  ELSE Summary(values, n, s1,
               BigSum([i \in 1..n |-> BigOf(d[i] * d[i])]),
               CubeSum(d, 1), CubeSum(d, -1),
               BigSum([i \in 1..n |-> BigMul(BigOf(d[i] * d[i]), BigOf(d[i] * d[i]))]))

\* The summary attempted from three samples on.
analyzeDistributionFromThree(values) ==
  IF Len(values) < 3 THEN [valid |-> FALSE]
  ELSE Moments(values, Len(values), SumSeq(values),
               [i \in 1..Len(values) |-> Len(values) * values[i] - SumSeq(values)])

\* analyzeDistribution(values).  With d[i] = n * (values[i] - mean), all integers:
\*   variance = A / n^3          for A = sum d[i]^2
\*   skewness = B * sqrt(n) / A^(3/2)   for B = sum d[i]^3 = up - down
\*   kurtosis = n * C / A^2 - 3         for C = sum d[i]^4
\*   cv       = sqrt(A / (n * s1^2))    for s1 = sum values[i]
\* The fractional outputs are kept in hundredths (0.27 is 27).
analyzeDistribution(values) ==
  IF Len(values) < 4 THEN [valid |-> FALSE]
  ELSE Moments(values, Len(values), SumSeq(values),
               [i \in 1..Len(values) |-> Len(values) * values[i] - SumSeq(values)])

----------------------------------------------------------------------------
(* TypingParser.analyzeTrajectory *)

\* cos^2 of the angle bounds 0.1, 0.09 and 0.52 rad, in units of 10^-8.
CosSqSmooth == 99003329
CosSqCorrectionLow == 99192185
CosSqCorrectionHigh == 75311013

\* Math.sqrt(n) in thousandths, truncated.
Sqrt1000(n) == RoundBy("sqrtFloor", BigMul(BigOf(n), BigOf(1000000)), BigOf(1))

\* cos(angle between v1 and v2) > sqrt(cosSq / 10^8), for vectors of positive length:
\* dot > 0 and dot^2 * 10^8 > cosSq * |v1|^2 * |v2|^2.
CosAbove(v1, v2, cosSq) ==
  LET dot == v1.x * v2.x + v1.y * v2.y
      mag1sq == v1.x * v1.x + v1.y * v1.y
      mag2sq == v2.x * v2.x + v2.y * v2.y
  IN /\ dot > 0
     /\ BigLess(BigMul(BigOf(cosSq), BigMul(BigOf(mag1sq), BigOf(mag2sq))),
                BigMul(BigSquare(dot), BigOf(100000000)))

\* cos(angle) < sqrt(cosSq / 10^8)
CosBelow(v1, v2, cosSq) ==
  LET dot == v1.x * v2.x + v1.y * v2.y
      mag1sq == v1.x * v1.x + v1.y * v1.y
      mag2sq == v2.x * v2.x + v2.y * v2.y
  IN \/ dot <= 0
     \/ BigLess(BigMul(BigSquare(dot), BigOf(100000000)),
                BigMul(BigOf(cosSq), BigMul(BigOf(mag1sq), BigOf(mag2sq))))

\* The vectors into and out of points[i - 1], for i in 3..Len(points).
Incoming(points, i) ==
  [x |-> points[i - 1].x - points[i - 2].x, y |-> points[i - 1].y - points[i - 2].y]
Outgoing(points, i) ==
  [x |-> points[i].x - points[i - 1].x, y |-> points[i].y - points[i - 1].y]

Turning(points, i) ==
  LET v1 == Incoming(points, i)
      v2 == Outgoing(points, i)
  IN (v1.x # 0 \/ v1.y # 0) /\ (v2.x # 0 \/ v2.y # 0)

\* The comparison turned round: angle > 0.1.
IsSharp(points, i) ==
  Turning(points, i) /\ CosBelow(Incoming(points, i), Outgoing(points, i), CosSqSmooth)

\* angle < 0.1
IsSmooth(points, i) ==
  Turning(points, i) /\ CosAbove(Incoming(points, i), Outgoing(points, i), CosSqSmooth)

\* angle > 0.09 && angle < 0.52
IsCorrection(points, i) ==
  /\ Turning(points, i)
  /\ CosBelow(Incoming(points, i), Outgoing(points, i), CosSqCorrectionLow)
  /\ CosAbove(Incoming(points, i), Outgoing(points, i), CosSqCorrectionHigh)

\* analyzeTrajectory(trajectory).  The samples carry a timestamp on every point or
\* on none.  The path length is summed in truncated thousandths before rounding.
analyzeTrajectory(trajectory) ==
  IF \/ ~Truthy(trajectory)
     \/ ~Truthy(Get(trajectory, "sample"))
     \/ Len(trajectory.sample.v) < 3
  THEN [valid |-> FALSE, points |-> 0, distance |-> 0]
  ELSE LET points == trajectory.sample.v
           n == Len(points)
           totalDistance1000 ==
             SumSeq([i \in 1..(n - 1) |->
               Sqrt1000((points[i + 1].x - points[i].x) * (points[i + 1].x - points[i].x)
                        + (points[i + 1].y - points[i].y) * (points[i + 1].y - points[i].y))])
           smoothSegments == Cardinality({i \in 3..n : IsSmooth(points, i)})
           corrections == Cardinality({i \in 3..n : IsCorrection(points, i)})
           intervalStats ==
             IF n > 3 /\ Truthy(points[1].t)
             THEN analyzeDistribution([i \in 1..(n - 1) |-> points[i + 1].t.v - points[i].t.v])
             ELSE [valid |-> FALSE, isNull |-> TRUE]
       IN [valid |-> TRUE,
           points |-> n,
           distance |-> RoundDiv(totalDistance1000, 1000),
           smoothRatio |-> RoundDiv(100 * smoothSegments, n - 2),
           correctionRatio |-> RoundDiv(100 * corrections, n - 2),
           intervalStats |-> intervalStats]

----------------------------------------------------------------------------
(* AutomationDetector: the signal catalog *)

\* A reason is the sequence of its parts: an optional label, then the message
\* (the numbers a message quotes are left out).
Flag(weight, text) == [type |-> "bot", weight |-> weight, reason |-> <<text>>]

\* `${label} ${f.reason}`
Labelled(label, reason) == <<label>> \o reason

\* The flags among candidates <<condition, flag>> whose condition holds, in order.
RECURSIVE Pushed(_)
Pushed(candidates) ==
  IF candidates = <<>> THEN <<>>
  ELSE IF Head(candidates)[1] THEN <<Head(candidates)[2]>> \o Pushed(Tail(candidates))
  ELSE Pushed(Tail(candidates))

\* detectGaussianPattern(distribution); a field the summary lacks is undefined and
\* every comparison with it is false.
detectGaussianPattern(distribution) ==
  IF ~distribution.valid THEN <<>>
  ELSE LET th == thresholds.antiBot
           has == "skewness" \in DOMAIN distribution
           isNearNormal == /\ has
                           /\ Abs(distribution.skewness) < th.skewnessThreshold
                           /\ distribution.kurtosis > th.kurtosisMin
                           /\ distribution.kurtosis < th.kurtosisMax
       IN Pushed(<<
            <<isNearNormal, Flag(2, "Distribution too close to Gaussian")>>,
            <<has /\ distribution.roundNumberRatio > th.roundNumberRatio,
              Flag(2, "Too many round numbers")>>,
            <<has /\ distribution.maxConsecutiveSimilar > th.consecutiveSimilarMax,
              Flag(2, "consecutive similar intervals detected")>>,
            <<has /\ distribution.cv > th.cvMin /\ distribution.cv < th.cvMax,
              Flag(2, "Coefficient of variation suggests programmatic randomness")>> >>)

\* detectTrajectoryAutomation(trajectoryAnalysis)
detectTrajectoryAutomation(trajectoryAnalysis) ==
  IF ~trajectoryAnalysis.valid THEN <<>>
  ELSE LET th == thresholds.antiBot
           intervalStats == trajectoryAnalysis.intervalStats
       IN Pushed(<<
            <<trajectoryAnalysis.smoothRatio > th.trajectorySmoothMax,
              Flag(3, "Mouse trajectory too smooth")>>,
            <<trajectoryAnalysis.correctionRatio < th.trajectoryCorrectionMin
                /\ trajectoryAnalysis.points > 10,
              Flag(2, "No micro-corrections in mouse movement")>>,
            <<intervalStats.valid /\ "cv" \in DOMAIN intervalStats
                /\ intervalStats.cv < th.trajectoryIntervalCVMax,
              Flag(2, "Mouse movement timing too uniform")>> >>)

\* detectWebDriver(stats)
detectWebDriver(stats) ==
  LET automationFlags == Get(stats, "automationFlags")
      set(f) == Truthy(automationFlags) /\ Truthy(Get(automationFlags, f))
  IN Pushed(<<
       <<Truthy(Get(stats, "webdriverDetected")),
         Flag(5, "WebDriver automation detected (navigator.webdriver)")>>,
       <<set("hasChromiumAutomation"), Flag(3, "Chromium automation flags detected")>>,
       <<set("hasSelenium"), Flag(5, "Selenium WebDriver detected")>>,
       <<set("hasPhantom"), Flag(5, "PhantomJS detected")>>,
       <<set("headlessChrome"), Flag(4, "HeadlessChrome detected")>>,
       <<set("noPlugins"), Flag(0, "No browser plugins (possible headless)")>>,
       <<set("zeroWindowSize"), Flag(3, "Zero window size (headless browser)")>> >>)

\* detectSyntheticEvents(stats): syntheticRatio > 0.3 is 10 * synthetic > 3 * total.
detectSyntheticEvents(stats) ==
  LET untrustedEvents == Get(stats, "untrustedEvents")
      syntheticKeyEvents == Get(stats, "syntheticKeyEvents")
      totalKeyEvents == Get(stats, "totalKeyEvents")
  IN Pushed(<<
       <<Gt(untrustedEvents, 0), Flag(3, "untrusted (synthetic) events")>>,
       <<syntheticKeyEvents.t = "number" /\ Gt(totalKeyEvents, 0)
           /\ 10 * syntheticKeyEvents.v > 3 * totalKeyEvents.v,
         Flag(4, "High ratio of synthetic keyboard events")>> >>)

\* The two speed tests made one after the other, the second not bound to the
\* failure of the first.
analyzeFieldTypingBothTests(pattern) ==
  IF pattern.keystrokeCount = 0 THEN [valid |-> FALSE, botFlags |-> <<>>, humanFlags |-> <<>>]
  ELSE LET th == thresholds
           seek == pattern.seekTime
           press == pattern.pressTime
           count == pattern.keystrokeCount
       IN [valid |-> TRUE,
           botFlags |-> Pushed(<<
             <<seek.avg < th.seekTime.tooFast, Flag(3, "Extremely short key interval")>>,
             <<seek.avg < th.seekTime.botMax,
               Flag(2, "Key interval too short")>>,
             <<seek.std < th.seekTime.uniformStdMax /\ count > 3,
               Flag(2, "Key interval too uniform")>>,
             <<press.avg > 0 /\ press.avg < th.pressTime.botMax,
               Flag(2, "Extremely short key press")>>,
             <<press.std < th.pressTime.uniformStdMax /\ count > 3 /\ press.avg > 0,
               Flag(2, "Key press too uniform")>>,
             <<seek.range < th.antiBot.seekTimeMinRange /\ count > 5,
               Flag(2, "SeekTime range too narrow")>> >>),
           humanFlags |-> Pushed(<<
             <<seek.avg > th.seekTime.humanMin, [weight |-> 1, reason |-> <<"Normal key interval">>]>>,
             <<press.avg > th.pressTime.humanMin, [weight |-> 1, reason |-> <<"Normal key press">>]>>,
             <<pattern.longPauses > 0, [weight |-> 2, reason |-> <<"Has long pauses">>]>> >>)]

\* analyzeFieldTyping(pattern) for a decoded pattern (never null where analyze calls it)
analyzeFieldTyping(pattern) ==
  IF pattern.keystrokeCount = 0 THEN [valid |-> FALSE, botFlags |-> <<>>, humanFlags |-> <<>>]
  ELSE LET th == thresholds
           seek == pattern.seekTime
           press == pattern.pressTime
           count == pattern.keystrokeCount
       IN [valid |-> TRUE,
           botFlags |-> Pushed(<<
             <<seek.avg < th.seekTime.tooFast, Flag(3, "Extremely short key interval")>>,
             <<seek.avg >= th.seekTime.tooFast /\ seek.avg < th.seekTime.botMax,
               Flag(2, "Key interval too short")>>,
             <<seek.std < th.seekTime.uniformStdMax /\ count > 3,
               Flag(2, "Key interval too uniform")>>,
             <<press.avg > 0 /\ press.avg < th.pressTime.botMax,
               Flag(2, "Extremely short key press")>>,
             <<press.std < th.pressTime.uniformStdMax /\ count > 3 /\ press.avg > 0,
               Flag(2, "Key press too uniform")>>,
             <<seek.range < th.antiBot.seekTimeMinRange /\ count > 5,
               Flag(2, "SeekTime range too narrow")>> >>),
           humanFlags |-> Pushed(<<
             <<seek.avg > th.seekTime.humanMin, [weight |-> 1, reason |-> <<"Normal key interval">>]>>,
             <<press.avg > th.pressTime.humanMin, [weight |-> 1, reason |-> <<"Normal key press">>]>>,
             <<pattern.longPauses > 0, [weight |-> 2, reason |-> <<"Has long pauses">>]>> >>)]

UpperCaseChars ==
  {"A", "B", "C", "D", "E", "F", "G", "H", "I", "J", "K", "L", "M",
   "N", "O", "P", "Q", "R", "S", "T", "U", "V", "W", "X", "Y", "Z"}

\* the characters of the special-character class of the password test (the
\* backquote goes by its name)
SpecialChars ==
  {"!", "@", "#", "$", "%", "^", "&", "*", "(", ")", "_", "+", "-", "=", "[", "]",
   "{", "}", ";", "'", ":", "\"", "\\", "|", ",", ".", "<", ">", "/", "?", "backquote", "~"}

\* regex.test(password) for a character class
HasCharIn(password, class) == \E i \in 1..Len(password) : password[i] \in class

\* The mismatch test without the paste exemption.
detectPasswordMismatchPasted(stats) ==
  LET password == OrElse(Get(stats, "password"), Str(<<>>))
      shiftCount == OrElse(OrElse(Get(stats, "passwordShiftCount"), Get(stats, "shiftCount")), Num(0))
      capsLockCount ==
        OrElse(OrElse(Get(stats, "passwordCapsLockCount"), Get(stats, "capsLockCount")), Num(0))
  IN IF ~Truthy(password) THEN [flags |-> <<>>, details |-> [isNull |-> TRUE]]
     ELSE LET needsShift == HasCharIn(password.v, UpperCaseChars \cup SpecialChars)
              usedShiftOrCaps == Gt(shiftCount, 0) \/ Gt(capsLockCount, 0)
          IN [flags |-> Pushed(<<
                <<needsShift /\ ~usedShiftOrCaps,
                  Flag(3, "Password has uppercase/special chars but no Shift/CapsLock and not pasted")>> >>),
              details |-> [needsShift |-> needsShift, usedShiftOrCaps |-> usedShiftOrCaps]]

\* detectPasswordMismatch(stats)
detectPasswordMismatch(stats) ==
  LET password == OrElse(Get(stats, "password"), Str(<<>>))
      shiftCount == OrElse(OrElse(Get(stats, "passwordShiftCount"), Get(stats, "shiftCount")), Num(0))
      capsLockCount ==
        OrElse(OrElse(Get(stats, "passwordCapsLockCount"), Get(stats, "capsLockCount")), Num(0))
      pastePass == OrElse(Get(stats, "pastePass"), Num(0))
  IN IF ~Truthy(password) THEN [flags |-> <<>>, details |-> [isNull |-> TRUE]]
     ELSE LET hasUpperCase == HasCharIn(password.v, UpperCaseChars)
              hasSpecialChar == HasCharIn(password.v, SpecialChars)
              needsShift == hasUpperCase \/ hasSpecialChar
              usedShiftOrCaps == Gt(shiftCount, 0) \/ Gt(capsLockCount, 0)
              usedPaste == Gt(pastePass, 0)
          IN [flags |-> Pushed(<<
                <<needsShift /\ ~usedShiftOrCaps /\ ~usedPaste,
                  Flag(3, "Password has uppercase/special chars but no Shift/CapsLock and not pasted")>> >>),
              details |-> [hasUpperCase |-> hasUpperCase, hasSpecialChar |-> hasSpecialChar,
                           needsShift |-> needsShift, usedShiftOrCaps |-> usedShiftOrCaps,
                           usedPaste |-> usedPaste]]

----------------------------------------------------------------------------
(* AutomationDetector.analyze: the scoring engine *)

\* What one step of analyze adds: to botScore, to humanScore, to result.reasons and
\* to result.details.
NoDetails == [x \in {} |-> 0]

Tally(bot, human, reasons, details) ==
  [bot |-> bot, human |-> human, reasons |-> reasons, details |-> details]

Nothing == Tally(0, 0, <<>>, NoDetails)

Plus(a, b) ==
  Tally(a.bot + b.bot, a.human + b.human, a.reasons \o b.reasons, b.details @@ a.details)

RECURSIVE PlusAll(_)
PlusAll(steps) == IF steps = <<>> THEN Nothing ELSE Plus(Head(steps), PlusAll(Tail(steps)))

\* Scoring by the number of flags, two points each, whatever their weights.
WeightsByCount(flags) == 2 * Len(flags)

Weights(flags) == SumSeq([i \in 1..Len(flags) |-> flags[i].weight])

\* The weights added without a word of reason.
BotFlagsSilent(flags, label) == Tally(Weights(flags), 0, <<>>, NoDetails)

\* flags.forEach(f => { botScore += f.weight; result.reasons.push(`${label} ${f.reason}`) })
BotFlags(flags, label) ==
  Tally(Weights(flags), 0, [i \in 1..Len(flags) |-> Labelled(label, flags[i].reason)], NoDetails)

\* flags.forEach(f => { botScore += f.weight; result.reasons.push(f.reason) })
PlainBotFlags(flags) ==
  Tally(Weights(flags), 0, [i \in 1..Len(flags) |-> flags[i].reason], NoDetails)

\* The flags of one field, from its typing analysis and seek-time distribution.
FieldFlags(pattern, analysis, dist, label, seekLabel, analysisKey, distributionKey) ==
  PlusAll(<<
    Tally(0, 0, <<>>, analysisKey :> analysis),
    BotFlags(analysis.botFlags, label),
    Tally(0, Weights(analysis.humanFlags), <<>>, NoDetails),
    IF Len(pattern.raw.seekTimes) > 4
    THEN Plus(Tally(0, 0, <<>>, distributionKey :> dist),
              BotFlags(detectGaussianPattern(dist), seekLabel))
    ELSE Nothing >>)

\* Step 2, for one field: the typing flags, then the seek-time distribution flags.
FieldStep(pattern, label, seekLabel, analysisKey, distributionKey) ==
  IF pattern.kind = "null" THEN Nothing
  ELSE FieldFlags(pattern, analyzeFieldTyping(pattern),
                  analyzeDistribution(pattern.raw.seekTimes),
                  label, seekLabel, analysisKey, distributionKey)

\* Step 3: the gaps between the fields.
TimingStep(stats) ==
  LET th == thresholds.timing
  IN PlusAll(<<
       IF Lt(Get(stats, "usernameToPasswordMs"), th.userToPassMin)
       THEN Tally(2, 0, << <<"Username to password too fast">> >>, NoDetails) ELSE Nothing,
       IF Lt(Get(stats, "passwordToLoginMs"), th.passToLoginMin)
       THEN Tally(2, 0, << <<"Password to login too fast">> >>, NoDetails) ELSE Nothing >>)

\* The flags of a trajectory from its analysis.
TrajectoryFlags(stats, trajAnalysis) ==
  LET th == thresholds.trajectory
  IN Plus(Tally(0, 0, <<>>, "trajectoryAnalysis" :> trajAnalysis),
          IF ~trajAnalysis.valid THEN Nothing
          ELSE PlusAll(<<
            IF trajAnalysis.points < th.minPoints
            THEN Tally(1, 0, << <<"Too few trajectory points">> >>, NoDetails) ELSE Nothing,
            IF trajAnalysis.distance < th.minDistance /\ Truthy(Get(stats.trajectory, "captured"))
            THEN Tally(1, 0, << <<"Mouse distance too short">> >>, NoDetails) ELSE Nothing,
            IF trajAnalysis.points > 5 /\ trajAnalysis.distance > 100
            THEN Tally(0, 2, <<>>, NoDetails) ELSE Nothing,
            BotFlags(detectTrajectoryAutomation(trajAnalysis), "[Trajectory]") >>))

\* Step 4: the mouse trajectory.
TrajectoryStep(stats) ==
  IF ~Truthy(Get(stats, "trajectory")) THEN Nothing
  ELSE TrajectoryFlags(stats, analyzeTrajectory(stats.trajectory))

\* Step 5: paste.
PasteStep(stats) ==
  PlusAll(<<
    IF Gt(Get(stats, "pasteUser"), 0)
    THEN Tally(1, 0, << <<"Username was pasted">> >>, NoDetails) ELSE Nothing,
    IF Gt(Get(stats, "pastePass"), 0)
    THEN Tally(1, 0, << <<"Password was pasted">> >>, NoDetails) ELSE Nothing >>)

\* Step 6: (stats.imeUser || 0) + (stats.imePass || 0)
ImeStep(stats) ==
  LET imeTotal == OrElse(Get(stats, "imeUser"), Num(0)).v + OrElse(Get(stats, "imePass"), Num(0)).v
  IN IF imeTotal > 0 THEN Tally(0, 3, <<>>, "ime" :> imeTotal) ELSE Nothing

\* Step 7: Shift and CapsLock.
ShiftStep(stats) ==
  LET shiftCount == OrElse(Get(stats, "shiftCount"), Num(0)).v
      capsLockCount == OrElse(Get(stats, "capsLockCount"), Num(0)).v
  IN PlusAll(<<
       IF shiftCount > 0 THEN Tally(0, 2, <<>>, "shift" :> shiftCount) ELSE Nothing,
       IF capsLockCount > 0 THEN Tally(0, 1, <<>>, "capsLock" :> capsLockCount) ELSE Nothing >>)

\* Step 8: password complexity against the keystrokes.
MismatchStep(stats) ==
  LET pwdMismatch == detectPasswordMismatch(stats)
  IN Plus(Tally(0, 0, <<>>, "passwordAnalysis" :> pwdMismatch.details),
          PlainBotFlags(pwdMismatch.flags))

\* The percentage cut off instead of rounded.
ConfidenceTruncated(botScore, humanScore) ==
  IF botScore + humanScore > 0 THEN (100 * botScore) \div (botScore + humanScore) ELSE 0

\* The share of the human score instead of the bot score.
ConfidenceOfHuman(botScore, humanScore) ==
  IF botScore + humanScore > 0 THEN RoundDiv(100 * humanScore, botScore + humanScore) ELSE 0

\* Math.round((botScore / totalScore) * 100), 0 for an empty total.  For the totals
\* analyze can reach (botScore <= 88, humanScore <= 16) the double arithmetic of the
\* code agrees with the exact quotient.
Confidence(botScore, humanScore) ==
  IF botScore + humanScore > 0 THEN RoundDiv(100 * botScore, botScore + humanScore) ELSE 0

\* The threshold itself already counted as a bot.
VerdictAtThreshold(confidence) == confidence >= thresholds.decision.botProbabilityThreshold

\* result.isBot = result.confidence > th.decision.botProbabilityThreshold
Verdict(confidence) == confidence > thresholds.decision.botProbabilityThreshold

\* The final step of analyze: confidence, scores and verdict.
Fused(botScore, humanScore) ==
  [isBot |-> Verdict(Confidence(botScore, humanScore)),
   confidence |-> Confidence(botScore, humanScore),
   scores |-> [bot |-> botScore, human |-> humanScore]]

Return(value) == [kind |-> "return", value |-> value]
Throw == [kind |-> "throw", error |-> "TypeError"]

\* The result analyze returns when it finds no parser.
DegradedResult == [isBot |-> FALSE, confidence |-> 0, reasons |-> <<>>]

\* stats.typingdna?.lastUserTp
PatternInput(stats, field) ==
  IF Truthy(Get(stats, "typingdna")) THEN Get(stats.typingdna, field) ELSE Undef

\* The steps with the environment and event detectors run first.
AnalyzeStepsEnvironmentFirst(stats, userPattern, passPattern) ==
  <<Tally(0, 0, <<>>, [userPattern |-> userPattern, passPattern |-> passPattern]),
    BotFlags(detectWebDriver(stats), "[Automation]"),
    BotFlags(detectSyntheticEvents(stats), "[Events]"),
    FieldStep(userPattern, "[Username]", "[Username SeekTime]", "userAnalysis", "userSeekDistribution"),
    FieldStep(passPattern, "[Password]", "[Password SeekTime]", "passAnalysis", "passSeekDistribution"),
    TimingStep(stats),
    TrajectoryStep(stats),
    PasteStep(stats),
    ImeStep(stats),
    ShiftStep(stats),
    MismatchStep(stats)>>

\* The steps of analyze from the decoding of the patterns to the fusion.
StepCount == 11

\* Step k of analyze after the two patterns are decoded, in the order of the code.
AnalyzeStep(k, stats, userPattern, passPattern) ==
  CASE k = 1 -> Tally(0, 0, <<>>, [userPattern |-> userPattern, passPattern |-> passPattern])
    [] k = 2 -> FieldStep(userPattern, "[Username]", "[Username SeekTime]", "userAnalysis", "userSeekDistribution")
    [] k = 3 -> FieldStep(passPattern, "[Password]", "[Password SeekTime]", "passAnalysis", "passSeekDistribution")
    [] k = 4 -> TimingStep(stats)
    [] k = 5 -> TrajectoryStep(stats)
    [] k = 6 -> PasteStep(stats)
    [] k = 7 -> ImeStep(stats)
    [] k = 8 -> ShiftStep(stats)
    [] k = 9 -> MismatchStep(stats)
    [] k = 10 -> BotFlags(detectWebDriver(stats), "[Automation]")
    [] k = 11 -> BotFlags(detectSyntheticEvents(stats), "[Events]")

\* The steps of analyze, in the order of the code.
AnalyzeSteps(stats, userPattern, passPattern) ==
  [k \in 1..StepCount |-> AnalyzeStep(k, stats, userPattern, passPattern)]

\* The result object once the steps have run.
Result(total) ==
  Return(Fused(total.bot, total.human)
         @@ [reasons |-> total.reasons, details |-> total.details])

\* analyze from the decoded patterns on; a pattern that is not a string has thrown.
Scored(stats, userPattern, passPattern) ==
  IF userPattern.kind = "throw" \/ passPattern.kind = "throw" THEN Throw
  ELSE Result(PlusAll(AnalyzeSteps(stats, userPattern, passPattern)))

\* analyze(stats, parser): hasParser says whether parser || TypingParser is an object.
analyze(stats, hasParser) ==
  IF ~hasParser THEN Return(DegradedResult)
  ELSE IF stats.t # "object" THEN Throw
  ELSE Scored(stats, parsePattern(PatternInput(stats, "lastUserTp")),
              parsePattern(PatternInput(stats, "lastPassTp")))

\* The typing section of the report for one field.
TypingSection(pattern) ==
  IF pattern.kind = "null" THEN <<>>
  ELSE <<[keystrokes |-> pattern.keystrokeCount,
          seekTime |-> pattern.seekTime, pressTime |-> pattern.pressTime]>>

\* A usage section of the report: present when the detail is truthy.
UsageSection(details, key) ==
  IF key \in DOMAIN details /\ details[key] # 0 THEN <<details[key]>> ELSE <<>>

\* The report of an analysis: analysis.scores.bot and analysis.details.userPattern
\* are read without a guard.
Report(analysis) ==
  IF analysis.kind = "throw" THEN Throw
  ELSE IF "scores" \notin DOMAIN analysis.value THEN Throw
  ELSE IF "details" \notin DOMAIN analysis.value THEN Throw
  ELSE Return([verdict |-> IF analysis.value.isBot THEN "Bot/Script" ELSE "Human",
               botProbability |-> analysis.value.confidence,
               scores |-> [bot |-> analysis.value.scores.bot,
                           human |-> analysis.value.scores.human],
               anomalies |-> analysis.value.reasons,
               usernameTyping |-> TypingSection(analysis.value.details.userPattern),
               passwordTyping |-> TypingSection(analysis.value.details.passPattern),
               imeUsage |-> UsageSection(analysis.value.details, "ime"),
               shiftUsage |-> UsageSection(analysis.value.details, "shift"),
               capsLockUsage |-> UsageSection(analysis.value.details, "capsLock")])

\* generateReport(stats, parser): the report's lines, by section.
generateReport(stats, hasParser) == Report(analyze(stats, hasParser))

----------------------------------------------------------------------------
(* The legacy TypingAnalyzer *)

\* calcStats of the legacy: no range.
LegacyStats(p) ==
  IF p.kind # "pattern" THEN p
  ELSE [p EXCEPT !.seekTime = [avg |-> @.avg, min |-> @.min, max |-> @.max, std |-> @.std],
                 !.pressTime = [avg |-> @.avg, min |-> @.min, max |-> @.max, std |-> @.std]]

\* TypingAnalyzer.parsePattern: the same decoder, its stats without the range.
legacyParsePattern(patternStr) == LegacyStats(parsePattern(patternStr))

\* TypingAnalyzer.analyzeFieldTyping(pattern): unweighted flags.
legacyAnalyzeFieldTyping(pattern) ==
  IF pattern.kind = "null" \/ pattern.keystrokeCount = 0
  THEN [valid |-> FALSE, botFlags |-> <<>>, humanFlags |-> <<>>]
  ELSE LET th == LegacyThresholdTable
           seek == pattern.seekTime
           press == pattern.pressTime
           count == pattern.keystrokeCount
       IN [valid |-> TRUE,
           botFlags |-> Pushed(<<
             <<seek.avg < th.seekTime.tooFast, Flag(2, "Extremely short key interval")>>,
             <<seek.avg >= th.seekTime.tooFast /\ seek.avg < th.seekTime.botMax,
               Flag(2, "Key interval too short")>>,
             <<seek.std < th.seekTime.uniformStdMax /\ count > 3,
               Flag(2, "Key interval too uniform")>>,
             <<press.avg > 0 /\ press.avg < th.pressTime.botMax,
               Flag(2, "Extremely short key press duration")>>,
             <<press.std < th.pressTime.uniformStdMax /\ count > 3 /\ press.avg > 0,
               Flag(2, "Key press duration too uniform")>> >>),
           humanFlags |-> Pushed(<<
             <<seek.avg > th.seekTime.humanMin, [weight |-> 1, reason |-> <<"Normal key interval">>]>>,
             <<press.avg > th.pressTime.humanMin, [weight |-> 1, reason |-> <<"Normal key press duration">>]>>,
             <<pattern.longPauses > 0, [weight |-> 1, reason |-> <<"Has long pauses">>]>> >>)]

LegacyFieldFlags(pattern, analysis, label, key) ==
  Plus(Tally(0, 0, <<>>, key :> [pattern |-> pattern, analysis |-> analysis]),
       IF ~analysis.valid THEN Nothing
       ELSE Tally(2 * Len(analysis.botFlags), Len(analysis.humanFlags),
                  [i \in 1..Len(analysis.botFlags) |-> Labelled(label, analysis.botFlags[i].reason)],
                  NoDetails))

\* botScore += botFlags.length * 2; humanScore += humanFlags.length
LegacyFieldStep(pattern, label, key) ==
  LegacyFieldFlags(pattern, legacyAnalyzeFieldTyping(pattern), label, key)

LegacyTimingStep(stats) ==
  LET th == LegacyThresholdTable.timing
  IN PlusAll(<<
       IF Lt(Get(stats, "usernameToPasswordMs"), th.userToPassMin)
       THEN Tally(2, 0, << <<"Username to password interval too short">> >>, NoDetails) ELSE Nothing,
       IF Lt(Get(stats, "passwordToLoginMs"), th.passToLoginMin)
       THEN Tally(2, 0, << <<"Password to login interval too short">> >>, NoDetails) ELSE Nothing >>)

\* The legacy reads the trajectory's own points and distancePx numbers.
LegacyTrajectoryStep(stats) ==
  LET traj == Get(stats, "trajectory")
      th == LegacyThresholdTable.trajectory
  IN IF ~Truthy(traj) THEN Nothing
     ELSE PlusAll(<<
       IF Lt(Get(traj, "points"), th.minPoints)
       THEN Tally(1, 0, << <<"Too few mouse trajectory points">> >>, NoDetails) ELSE Nothing,
       IF Lt(Get(traj, "distancePx"), th.minDistance) /\ Truthy(Get(traj, "captured"))
       THEN Tally(1, 0, << <<"Mouse movement distance too short">> >>, NoDetails) ELSE Nothing,
       IF Gt(Get(traj, "points"), 5) /\ Gt(Get(traj, "distancePx"), 100)
       THEN Tally(0, 2, <<>>, NoDetails) ELSE Nothing >>)

LegacyImeStep(stats) ==
  LET imeUserCount ==
        OrElse(OrElse(Get(stats, "usernameIMECompositionCount"), Get(stats, "imeUser")), Num(0)).v
      imePassCount ==
        OrElse(OrElse(Get(stats, "passwordIMECompositionCount"), Get(stats, "imePass")), Num(0)).v
      totalIME == imeUserCount + imePassCount
  IN IF totalIME > 0
     THEN Tally(0, 3, <<>>, "ime" :> [username |-> imeUserCount, password |-> imePassCount,
                                      total |-> totalIME])
     ELSE Nothing

\* Steps 7 and 8 of analyzeLogin: Shift and CapsLock, then the password mismatch.
LegacyShiftStep(stats) ==
  LET shiftCount ==
        OrElse(OrElse(Get(stats, "passwordShiftCount"), Get(stats, "shiftCount")), Num(0)).v
      capsLockCount ==
        OrElse(OrElse(Get(stats, "passwordCapsLockCount"), Get(stats, "capsLockCount")), Num(0)).v
      mismatch == detectPasswordMismatch(stats)
  IN PlusAll(<<
       IF shiftCount > 0 THEN Tally(0, 2, <<>>, "shift" :> shiftCount) ELSE Nothing,
       IF capsLockCount > 0 THEN Tally(0, 1, <<>>, "capsLock" :> capsLockCount) ELSE Nothing,
       IF mismatch.flags # <<>>
       THEN Tally(3, 0,
                  << <<"Password contains uppercase or special chars but no Shift/CapsLock detected and not pasted">> >>,
                  NoDetails)
       ELSE Nothing,
       IF "isNull" \in DOMAIN mismatch.details THEN Nothing
       ELSE Tally(0, 0, <<>>, "passwordAnalysis" :> mismatch.details) >>)

\* result.isBot = botScore >= 3 || result.confidence > 60
\* A verdict that asks for both conditions.
LegacyVerdictBoth(botScore, confidence) == botScore >= 3 /\ confidence > 60

LegacyVerdict(botScore, confidence) == botScore >= 3 \/ confidence > 60

\* The legacy result object once the steps have run.
LegacyResult(total) ==
  Return([isBot |-> LegacyVerdict(total.bot, Confidence(total.bot, total.human)),
          confidence |-> Confidence(total.bot, total.human),
          reasons |-> total.reasons,
          details |-> total.details,
          scores |-> [bot |-> total.bot, human |-> total.human]])

\* analyzeLogin from the decoded patterns on.
LegacyScored(stats, userPattern, passPattern) ==
  IF userPattern.kind = "throw" \/ passPattern.kind = "throw" THEN Throw
  ELSE LegacyResult(PlusAll(<<
         LegacyFieldStep(userPattern, "[Username]", "username"),
         LegacyFieldStep(passPattern, "[Password]", "password"),
         LegacyTimingStep(stats),
         LegacyTrajectoryStep(stats),
         PasteStep(stats),
         LegacyImeStep(stats),
         LegacyShiftStep(stats)>>))

\* TypingAnalyzer.analyzeLogin(stats)
analyzeLogin(stats) ==
  IF stats.t # "object" THEN Throw
  ELSE LegacyScored(stats, legacyParsePattern(PatternInput(stats, "lastUserTp")),
                    legacyParsePattern(PatternInput(stats, "lastPassTp")))

----------------------------------------------------------------------------
(* The requests the calls are made with *)

\* "v1|120,60|300,80|90,50|400,70": the pattern of the decoder scenario
PatternScenario == Str(<<"v", "1", "|", "1", "2", "0", ",", "6", "0", "|", "3", "0", "0", ",", "8", "0", "|", "9", "0", ",", "5", "0", "|", "4", "0", "0", ",", "7", "0">>)

\* "v1|20,10|22,11|21,10|20,12|23,10|21,11": a script: fast, uniform keystrokes
PatternScript == Str(<<"v", "1", "|", "2", "0", ",", "1", "0", "|", "2", "2", ",", "1", "1", "|", "2", "1", ",", "1", "0", "|", "2", "0", ",", "1", "2", "|", "2", "3", ",", "1", "0", "|", "2", "1", ",", "1", "1">>)

\* "v1|0,0|0,0": keystrokes without a positive time
PatternNoTimes == Str(<<"v", "1", "|", "0", ",", "0", "|", "0", ",", "0">>)

\* "v1|": a header and one empty segment
PatternHeaderBar == Str(<<"v", "1", "|">>)

\* "v1|100,50|100,50|100,50|100,50|100,50": identical seek times
PatternIdentical == Str(<<"v", "1", "|", "1", "0", "0", ",", "5", "0", "|", "1", "0", "0", ",", "5", "0", "|", "1", "0", "0", ",", "5", "0", "|", "1", "0", "0", ",", "5", "0", "|", "1", "0", "0", ",", "5", "0">>)

\* "v1|600,90|150,45|90,50|700,60|200,40": a typist who pauses
PatternPauses == Str(<<"v", "1", "|", "6", "0", "0", ",", "9", "0", "|", "1", "5", "0", ",", "4", "5", "|", "9", "0", ",", "5", "0", "|", "7", "0", "0", ",", "6", "0", "|", "2", "0", "0", ",", "4", "0">>)

\* "v1|abc|12": segments that are not numbers, a missing press time
PatternMalformed == Str(<<"v", "1", "|", "a", "b", "c", "|", "1", "2">>)

\* "v1|40,30|45,35": seek times between tooFast and botMax
PatternQuick == Str(<<"v", "1", "|", "4", "0", ",", "3", "0", "|", "4", "5", ",", "3", "5">>)

\* "v1|100,50|110,52|120,49|130,51|140,50|150,53": round, evenly stepped seek times
PatternSteps == Str(<<"v", "1", "|", "1", "0", "0", ",", "5", "0", "|", "1", "1", "0", ",", "5", "2", "|", "1", "2", "0", ",", "4", "9", "|", "1", "3", "0", ",", "5", "1", "|", "1", "4", "0", ",", "5", "0", "|", "1", "5", "0", ",", "5", "3">>)

\* "v1": a header alone: no bar
PatternHeaderOnly == Str(<<"v", "1">>)

\* "": the empty string
PatternEmpty == Str(<<>>)

PatternInputs ==
  {PatternScenario, PatternScript, PatternNoTimes, PatternHeaderBar, PatternIdentical,
   PatternPauses, PatternMalformed, PatternQuick, PatternSteps, PatternHeaderOnly,
   PatternEmpty, Num(42)}

\* two points
TrajectoryTwoPoints ==
  [t |-> "object", captured |-> Bool(TRUE),
   sample |-> Arr(<<[x |-> 0, y |-> 0, t |-> Undef],
      [x |-> 10, y |-> 10, t |-> Undef]>>)]

\* three collinear points, 100 px
TrajectoryCollinear ==
  [t |-> "object", captured |-> Bool(TRUE),
   sample |-> Arr(<<[x |-> 0, y |-> 0, t |-> Undef],
      [x |-> 30, y |-> 40, t |-> Undef],
      [x |-> 60, y |-> 80, t |-> Undef]>>)]

\* a hand: irregular turns and timing, 8 points
TrajectoryHuman ==
  [t |-> "object", captured |-> Bool(TRUE),
   sample |-> Arr(<<[x |-> 0, y |-> 0, t |-> Num(5)],
      [x |-> 20, y |-> 5, t |-> Num(40)],
      [x |-> 35, y |-> 30, t |-> Num(60)],
      [x |-> 60, y |-> 28, t |-> Num(130)],
      [x |-> 70, y |-> 60, t |-> Num(150)],
      [x |-> 100, y |-> 65, t |-> Num(260)],
      [x |-> 105, y |-> 100, t |-> Num(290)],
      [x |-> 140, y |-> 110, t |-> Num(420)]>>)]

\* a script: a straight line of 12 points, near-even timing
TrajectoryScript ==
  [t |-> "object", captured |-> Bool(TRUE),
   sample |-> Arr(<<[x |-> 0, y |-> 0, t |-> Num(100)],
      [x |-> 10, y |-> 5, t |-> Num(111)],
      [x |-> 20, y |-> 10, t |-> Num(120)],
      [x |-> 30, y |-> 15, t |-> Num(131)],
      [x |-> 40, y |-> 20, t |-> Num(140)],
      [x |-> 50, y |-> 25, t |-> Num(151)],
      [x |-> 60, y |-> 30, t |-> Num(160)],
      [x |-> 70, y |-> 35, t |-> Num(171)],
      [x |-> 80, y |-> 40, t |-> Num(180)],
      [x |-> 90, y |-> 45, t |-> Num(191)],
      [x |-> 100, y |-> 50, t |-> Num(200)],
      [x |-> 110, y |-> 55, t |-> Num(211)]>>)]

\* five points with identical time deltas
TrajectoryEvenTiming ==
  [t |-> "object", captured |-> Bool(TRUE),
   sample |-> Arr(<<[x |-> 0, y |-> 0, t |-> Num(10)],
      [x |-> 10, y |-> 2, t |-> Num(20)],
      [x |-> 20, y |-> 0, t |-> Num(30)],
      [x |-> 30, y |-> 3, t |-> Num(40)],
      [x |-> 40, y |-> 0, t |-> Num(50)]>>)]

\* four points, the first at time 0
TrajectoryFromZero ==
  [t |-> "object", captured |-> Bool(TRUE),
   sample |-> Arr(<<[x |-> 0, y |-> 0, t |-> Num(0)],
      [x |-> 10, y |-> 2, t |-> Num(12)],
      [x |-> 20, y |-> 0, t |-> Num(22)],
      [x |-> 30, y |-> 3, t |-> Num(35)]>>)]

\* four points, a short curved path
TrajectoryShort ==
  [t |-> "object", captured |-> Bool(TRUE),
   sample |-> Arr(<<[x |-> 0, y |-> 0, t |-> Undef],
      [x |-> 5, y |-> 0, t |-> Undef],
      [x |-> 10, y |-> 1, t |-> Undef],
      [x |-> 14, y |-> 3, t |-> Undef]>>)]

\* the short path, capture not attempted
TrajectoryNotCaptured ==
  [t |-> "object", captured |-> Bool(FALSE),
   sample |-> Arr(<<[x |-> 0, y |-> 0, t |-> Undef],
      [x |-> 5, y |-> 0, t |-> Undef],
      [x |-> 10, y |-> 1, t |-> Undef],
      [x |-> 14, y |-> 3, t |-> Undef]>>)]

TrajectoryInputs ==
  {TrajectoryTwoPoints, TrajectoryCollinear, TrajectoryHuman, TrajectoryScript,
   TrajectoryEvenTiming, TrajectoryFromZero, TrajectoryShort, TrajectoryNotCaptured,
   \* no sample list
   [t |-> "object", captured |-> Bool(TRUE)],
   \* the legacy shape: counts instead of samples
   [t |-> "object", captured |-> Bool(TRUE), points |-> Num(2), distancePx |-> Num(10)],
   [t |-> "object", captured |-> Bool(TRUE), points |-> Num(8), distancePx |-> Num(200)]}

\* "Secret!1", "abc", "pa_ss" and "PASS1"
PasswordInputs ==
  {Str(<<"S", "e", "c", "r", "e", "t", "!", "1">>), Str(<<"a", "b", "c">>),
   Str(<<"p", "a", "_", "s", "s">>), Str(<<"P", "A", "S", "S", "1">>), Str(<<>>)}

\* The signals a request may carry, in the order of the request interface.
TypingSignals == <<"lastUserTp", "lastPassTp">>

AutomationSignals ==
  <<"hasChromiumAutomation", "hasSelenium", "hasPhantom", "headlessChrome", "noPlugins",
    "zeroWindowSize">>

TopSignals ==
  <<"trajectory", "usernameToPasswordMs", "passwordToLoginMs", "pasteUser", "pastePass",
    "imeUser", "usernameIMECompositionCount", "imePass", "passwordIMECompositionCount",
    "shiftCount", "passwordShiftCount", "capsLockCount", "passwordCapsLockCount",
    "password", "webdriverDetected", "untrustedEvents", "syntheticKeyEvents", "totalKeyEvents">>

Signals == TypingSignals \o TopSignals \o AutomationSignals

Range(seq) == {seq[i] : i \in 1..Len(seq)}

SignalValues(signal) ==
  CASE signal \in Range(TypingSignals) -> PatternInputs
    [] signal = "trajectory" -> TrajectoryInputs
    [] signal = "usernameToPasswordMs" -> {Num(0), Num(299), Num(300)}
    [] signal = "passwordToLoginMs" -> {Num(99), Num(100)}
    [] signal \in {"pasteUser", "pastePass"} -> {Num(0), Num(1)}
    [] signal \in {"imeUser", "imePass", "usernameIMECompositionCount",
                   "passwordIMECompositionCount"} -> {Num(1)}
    [] signal \in {"shiftCount", "passwordShiftCount"} -> {Num(0), Num(2)}
    [] signal \in {"capsLockCount", "passwordCapsLockCount"} -> {Num(1)}
    [] signal = "password" -> PasswordInputs
    [] signal = "webdriverDetected" -> {Bool(TRUE)}
    [] signal = "untrustedEvents" -> {Num(0), Num(2)}
    [] signal = "syntheticKeyEvents" -> {Num(0), Num(3), Num(4)}
    [] signal = "totalKeyEvents" -> {Num(0), Num(10)}
    [] signal \in Range(AutomationSignals) -> {Bool(TRUE)}

\* The most signals one enumerated request carries.
MaxSignals == 1

\* The choices of at most k of the signals from position i on, each with a value.
RECURSIVE Choices(_, _)
Choices(i, k) ==
  IF i > Len(Signals) \/ k = 0 THEN {NoDetails}
  ELSE Choices(i + 1, k)
       \cup {(Signals[i] :> v) @@ rest : v \in SignalValues(Signals[i]), rest \in Choices(i + 1, k - 1)}

Object(fields) == ("t" :> "object") @@ fields

\* The request object carrying the chosen signals: the patterns under typingdna, the
\* environment flags under automationFlags, the rest at the top.
Request(choice) ==
  LET chosen == DOMAIN choice
      nested(key, signals) ==
        IF chosen \cap Range(signals) = {} THEN NoDetails
        ELSE key :> Object([f \in chosen \cap Range(signals) |-> choice[f]])
  IN Object([f \in chosen \cap Range(TopSignals) |-> choice[f]]
            @@ nested("typingdna", TypingSignals)
            @@ nested("automationFlags", AutomationSignals))

Secret1 == Str(<<"S", "e", "c", "r", "e", "t", "!", "1">>)

\* Shift and CapsLock used on a password that needs them.
ShiftScenario ==
  Request([shiftCount |-> Num(2), capsLockCount |-> Num(1), passwordShiftCount |-> Num(2),
           password |-> Secret1])

\* Selenium alone, and the plugin diagnostic alone.
SeleniumScenario == Request([hasSelenium |-> Bool(TRUE)])
NoPluginsScenario == Request([noPlugins |-> Bool(TRUE)])

\* Every automation-environment signal at once.
AllAutomationScenario ==
  Request([webdriverDetected |-> Bool(TRUE), hasChromiumAutomation |-> Bool(TRUE),
           hasSelenium |-> Bool(TRUE), hasPhantom |-> Bool(TRUE), headlessChrome |-> Bool(TRUE),
           noPlugins |-> Bool(TRUE), zeroWindowSize |-> Bool(TRUE)])

\* botScore 7 against humanScore 3: a confidence of exactly 70.
BoundaryScenario ==
  Request([hasChromiumAutomation |-> Bool(TRUE), headlessChrome |-> Bool(TRUE),
           imeUser |-> Num(1)])

\* botScore 8 against humanScore 3: 72.7 rounds to 73.
AboveBoundaryScenario ==
  Request([hasChromiumAutomation |-> Bool(TRUE), headlessChrome |-> Bool(TRUE),
           pasteUser |-> Num(1), imeUser |-> Num(1)])

\* A trajectory of two points and nothing else.
TwoPointScenario == Request([trajectory |-> TrajectoryTwoPoints])

\* A scripted login: every detector group has something to report.
ScriptScenario ==
  Request([lastUserTp |-> PatternScript, lastPassTp |-> PatternScript,
           usernameToPasswordMs |-> Num(0), passwordToLoginMs |-> Num(99),
           trajectory |-> TrajectoryScript, pasteUser |-> Num(1), pastePass |-> Num(1),
           password |-> Str(<<"P", "A", "S", "S", "1">>), webdriverDetected |-> Bool(TRUE),
           hasSelenium |-> Bool(TRUE), noPlugins |-> Bool(TRUE), untrustedEvents |-> Num(2),
           syntheticKeyEvents |-> Num(4), totalKeyEvents |-> Num(10)])

\* The same script typing a mixed-case password without Shift and without paste.
ScriptTypingScenario ==
  Request([lastUserTp |-> PatternSteps, lastPassTp |-> PatternScript,
           usernameToPasswordMs |-> Num(299), trajectory |-> TrajectoryShort,
           password |-> Secret1, webdriverDetected |-> Bool(TRUE), untrustedEvents |-> Num(2)])

\* A person: pauses, an input method, Shift and CapsLock, an irregular mouse path.
HumanScenario ==
  Request([lastUserTp |-> PatternPauses, lastPassTp |-> PatternScenario,
           usernameToPasswordMs |-> Num(300), trajectory |-> TrajectoryHuman,
           imeUser |-> Num(1), imePass |-> Num(1), shiftCount |-> Num(2),
           capsLockCount |-> Num(1), password |-> Secret1])

\* The password field pasted, or typed with CapsLock, or with the Shift counters at 0.
PastedPasswordScenario == Request([password |-> Secret1, pastePass |-> Num(1)])
CapsLockPasswordScenario == Request([password |-> Secret1, passwordCapsLockCount |-> Num(1)])
NoShiftPasswordScenario ==
  Request([password |-> Secret1, shiftCount |-> Num(0), passwordShiftCount |-> Num(0),
           pastePass |-> Num(0)])

\* The input-method counters under their other names.
ImeNamesScenario ==
  Request([usernameIMECompositionCount |-> Num(1), passwordIMECompositionCount |-> Num(1)])

\* The scenarios of the specification's section 8, the decision boundary, and requests
\* that carry several signals at once.
ScenarioRequests ==
  {ShiftScenario, SeleniumScenario, NoPluginsScenario, AllAutomationScenario,
   BoundaryScenario, AboveBoundaryScenario, TwoPointScenario, ScriptScenario,
   ScriptTypingScenario, HumanScenario, PastedPasswordScenario, CapsLockPasswordScenario,
   NoShiftPasswordScenario, ImeNamesScenario}

\* Every request of the model, and an absent one.
Requests == {Request(c) : c \in Choices(1, MaxSignals)} \cup ScenarioRequests \cup {Undef}

----------------------------------------------------------------------------
(* The calls *)

Init ==
  /\ thresholds = ThresholdTable
  /\ request \in Requests
  /\ call = [op |-> "none"]
  /\ outcome = [kind |-> "none"]

\* parser || (typeof TypingParser !== "undefined" ? TypingParser : null): the ambient
\* TypingParser is looked up only when no parser is passed.
\* The parser taken for granted.
HasParserAssumed(parser, ambient) == TRUE

HasParser(parser, ambient) == parser \/ ambient

Environments == {<<TRUE, "unread">>, <<FALSE, "defined">>, <<FALSE, "undefined">>}

\* AutomationDetector.analyze(request, parser)
Analyze(parser, ambient) ==
  /\ call.op = "none"
  /\ call' = [op |-> "analyze", parser |-> parser, ambient |-> ambient]
  /\ outcome' = analyze(request, HasParser(parser, ambient = "defined"))
  /\ UNCHANGED <<thresholds, request>>

\* AutomationDetector.generateReport(request, parser)
GenerateReport(parser, ambient) ==
  /\ call.op = "none"
  /\ call' = [op |-> "generateReport", parser |-> parser, ambient |-> ambient]
  /\ outcome' = generateReport(request, HasParser(parser, ambient = "defined"))
  /\ UNCHANGED <<thresholds, request>>

\* TypingAnalyzer.analyzeLogin(stats)
AnalyzeLogin ==
  /\ call.op = "none"
  /\ call' = [op |-> "analyzeLogin"]
  /\ outcome' = analyzeLogin(request)
  /\ UNCHANGED <<thresholds, request>>

Next ==
  \/ \E env \in Environments : Analyze(env[1], env[2])
  \/ \E env \in Environments : GenerateReport(env[1], env[2])
  \/ AnalyzeLogin

Spec == Init /\ [][Next]_vars

----------------------------------------------------------------------------
(* The fusion step on its own: the scores as the flags of one call add up, with *)
(* the confidence and verdict analyze would return if the call ended there.     *)

\* The largest score the fusion steps reach.
MaxScore == 20

\* The weights of the catalog's bot flags and human flags.
BotWeights == {0, 1, 2, 3, 4, 5}
HumanWeights == {1, 2, 3}

FusionInit ==
  /\ thresholds = ThresholdTable
  /\ request = Undef
  /\ call = [op |-> "fuse"]
  /\ outcome = Return(Fused(0, 0))

\* botScore += f.weight, then the final step
AddBotFlag(weight) ==
  /\ outcome.value.scores.bot + weight <= MaxScore
  /\ outcome' = Return(Fused(outcome.value.scores.bot + weight, outcome.value.scores.human))
  /\ UNCHANGED <<thresholds, request, call>>

\* humanScore += f.weight, then the final step
AddHumanFlag(weight) ==
  /\ outcome.value.scores.human + weight <= MaxScore
  /\ outcome' = Return(Fused(outcome.value.scores.bot, outcome.value.scores.human + weight))
  /\ UNCHANGED <<thresholds, request, call>>

FusionNext ==
  \/ \E weight \in BotWeights : AddBotFlag(weight)
  \/ \E weight \in HumanWeights : AddHumanFlag(weight)

FusionSpec == FusionInit /\ [][FusionNext]_vars

----------------------------------------------------------------------------
(* The parser and the field detector called on their own *)

\* The most segments after the header of an enumerated pattern string.
MaxSegments == 2

\* The most samples of an enumerated array.
MaxSamples == 5

\* The largest coordinate, in tens of pixels, of an enumerated trajectory point.
MaxCoord == 1

\* The segments of the enumerated pattern strings: "120,60", "0,0", "", "abc",
\* "-5,10", "25,0", "45,30", "65,45", "600,90" and "90"
SegmentInputs ==
  {<<"1", "2", "0", ",", "6", "0">>,
   <<"0", ",", "0">>,
   <<>>,
   <<"a", "b", "c">>,
   <<"-", "5", ",", "1", "0">>,
   <<"2", "5", ",", "0">>,
   <<"4", "5", ",", "3", "0">>,
   <<"6", "5", ",", "4", "5">>,
   <<"6", "0", "0", ",", "9", "0">>,
   <<"9", "0">>}

\* The pattern strings "v1" followed by k segments, each after a bar.
RECURSIVE PatternsOf(_)
PatternsOf(k) ==
  IF k = 0 THEN {<<"v", "1">>}
  ELSE {p \o <<"|">> \o seg : p \in PatternsOf(k - 1), seg \in SegmentInputs}

\* An absent pattern, strings without a bar, and the strings of up to MaxSegments segments.
PatternStrings ==
  {Undef} \cup PatternInputs \cup {Str(seg) : seg \in SegmentInputs}
  \cup UNION {{Str(p) : p \in PatternsOf(k)} : k \in 0..MaxSegments}

\* The arrays of up to n samples of 0, 10 or 15 ms.
RECURSIVE SamplesOf(_)
SamplesOf(n) ==
  IF n = 0 THEN {<<>>}
  ELSE SamplesOf(n - 1)
       \cup {Append(a, v) : a \in {b \in SamplesOf(n - 1) : Len(b) = n - 1}, v \in {0, 10, 15}}

SampleArrays == {Arr(a) : a \in SamplesOf(MaxSamples)}

\* The trajectories of three points from the origin, without timestamps; the third
\* point reaches twice as far as the second, so that a path can go on straight.
ThreePointTrajectories ==
  {[t |-> "object", captured |-> Bool(TRUE),
    sample |-> Arr(<<[x |-> 0, y |-> 0, t |-> Undef],
                     [x |-> 10 * x2, y |-> 10 * y2, t |-> Undef],
                     [x |-> 10 * x3, y |-> 10 * y3, t |-> Undef]>>)] :
     x2 \in -MaxCoord..MaxCoord, y2 \in -MaxCoord..MaxCoord,
     x3 \in -2 * MaxCoord..2 * MaxCoord, y3 \in -2 * MaxCoord..2 * MaxCoord}

ParserInit ==
  /\ thresholds = ThresholdTable
  /\ request \in PatternStrings \cup SampleArrays \cup ThreePointTrajectories
  /\ call = [op |-> "none"]
  /\ outcome = [kind |-> "none"]

\* TypingParser.parsePattern(request)
ParsePattern ==
  /\ call.op = "none"
  /\ request.t \in {"undefined", "string", "number"}
  /\ call' = [op |-> "parsePattern"]
  /\ outcome' = parsePattern(request)
  /\ UNCHANGED <<thresholds, request>>

\* TypingAnalyzer.parsePattern(request)
LegacyParsePattern ==
  /\ call.op = "none"
  /\ request.t \in {"undefined", "string", "number"}
  /\ call' = [op |-> "legacyParsePattern"]
  /\ outcome' = legacyParsePattern(request)
  /\ UNCHANGED <<thresholds, request>>

\* AutomationDetector.analyzeFieldTyping(pattern) on the decoded request
AnalyzeFieldTyping ==
  /\ call.op = "none"
  /\ request.t = "string"
  /\ parsePattern(request).kind = "pattern"
  /\ call' = [op |-> "analyzeFieldTyping", pattern |-> parsePattern(request)]
  /\ outcome' = analyzeFieldTyping(parsePattern(request))
  /\ UNCHANGED <<thresholds, request>>

\* TypingParser.analyzeDistribution(request)
AnalyzeDistribution ==
  /\ call.op = "none"
  /\ request.t = "array"
  /\ call' = [op |-> "analyzeDistribution"]
  /\ outcome' = analyzeDistribution(request.v)
  /\ UNCHANGED <<thresholds, request>>

\* TypingParser.analyzeTrajectory(request)
AnalyzeTrajectory ==
  /\ call.op = "none"
  /\ request.t = "object"
  /\ call' = [op |-> "analyzeTrajectory"]
  /\ outcome' = analyzeTrajectory(request)
  /\ UNCHANGED <<thresholds, request>>

ParserNext ==
  \/ ParsePattern
  \/ LegacyParsePattern
  \/ AnalyzeFieldTyping
  \/ AnalyzeDistribution
  \/ AnalyzeTrajectory

ParserSpec == ParserInit /\ [][ParserNext]_vars

----------------------------------------------------------------------------------------------------------------------------------------
(* Two analyze calls in flight on one detector *)

\* The requests of the two calls.
ConcurrentRequests == {ScriptScenario, HumanScenario, BoundaryScenario, Undef}

\* A step that tunes the table as it goes.
ThresholdsTuned(table, step) ==
  IF step = 3 THEN [table EXCEPT !.timing.userToPassMin = 0] ELSE table

\* this.thresholds once a step of analyze has run: no step assigns to it.
ThresholdsAfter(table, step) == table

\* A call is at step 0 before it starts, at step k once k steps have run, and
\* at StepCount + 1 once it has returned or thrown.
ConcurrentInit ==
  /\ thresholds = ThresholdTable
  /\ request \in ConcurrentRequests \X ConcurrentRequests
  /\ call = [op |-> "concurrent", pc |-> <<0, 0>>, tally |-> <<Nothing, Nothing>>,
             interleaved |-> FALSE]
  /\ outcome = <<[kind |-> "none"], [kind |-> "none"]>>

\* Whether the other call is part-way through when call i takes a step.
Overlaps(i) == call.pc[3 - i] > 0 /\ call.pc[3 - i] <= StepCount

\* The first step of call i from its decoded patterns: a throw, or the result
\* object with the two patterns in its details.
Entered(i, userPattern, passPattern) ==
  IF userPattern.kind = "throw" \/ passPattern.kind = "throw"
  THEN /\ outcome' = [outcome EXCEPT ![i] = Throw]
       /\ call' = [call EXCEPT !.pc[i] = StepCount + 1, !.interleaved = @ \/ Overlaps(i)]
  ELSE /\ outcome' = outcome
       /\ call' = [call EXCEPT !.pc[i] = 1,
                               !.tally[i] = AnalyzeStep(1, request[i], userPattern, passPattern),
                               !.interleaved = @ \/ Overlaps(i)]

\* Call i enters analyze and decodes its two patterns.
Enter(i) ==
  /\ call.pc[i] = 0
  /\ IF request[i].t # "object"
     THEN /\ outcome' = [outcome EXCEPT ![i] = Throw]
          /\ call' = [call EXCEPT !.pc[i] = StepCount + 1, !.interleaved = @ \/ Overlaps(i)]
     ELSE Entered(i, parsePattern(PatternInput(request[i], "lastUserTp")),
                  parsePattern(PatternInput(request[i], "lastPassTp")))
  /\ thresholds' = ThresholdsAfter(thresholds, 1)
  /\ request' = request

\* Call i runs its next detector step and adds the flags to its own scores.
RunStep(i) ==
  /\ call.pc[i] >= 1
  /\ call.pc[i] < StepCount
  /\ call' = [call EXCEPT
       !.pc[i] = @ + 1,
       !.tally[i] = Plus(@, AnalyzeStep(call.pc[i] + 1, request[i],
                                        call.tally[i].details.userPattern,
                                        call.tally[i].details.passPattern)),
       !.interleaved = @ \/ Overlaps(i)]
  /\ thresholds' = ThresholdsAfter(thresholds, call.pc[i] + 1)
  /\ UNCHANGED <<request, outcome>>

\* Call i fuses its scores and returns.
Fuse(i) ==
  /\ call.pc[i] = StepCount
  /\ call' = [call EXCEPT !.pc[i] = StepCount + 1, !.interleaved = @ \/ Overlaps(i)]
  /\ outcome' = [outcome EXCEPT ![i] = Result(call.tally[i])]
  /\ thresholds' = ThresholdsAfter(thresholds, StepCount + 1)
  /\ request' = request

ConcurrentNext ==
  \/ \E i \in {1, 2} : Enter(i)
  \/ \E i \in {1, 2} : RunStep(i)
  \/ \E i \in {1, 2} : Fuse(i)

ConcurrentSpec == ConcurrentInit /\ [][ConcurrentNext]_vars

----------------
(* Properties *)

\* A call of analyze with a parser to use: the argument, or the ambient TypingParser.
AnalyzeWithParser == call.op = "analyze" /\ (call.parser \/ call.ambient = "defined")

\* A call that returned a result carrying scores.
ScoredResult == outcome.kind = "return" /\ "scores" \in DOMAIN outcome.value

\* C1: every result of analyze and of analyzeLogin has confidence equal to
\* 100 * bot / (bot + human) rounded to the nearest integer (a half upwards) when
\* the scores are not both 0, and 0 otherwise; so it lies in 0..100, is 0 when both
\* scores are 0 and 100 when only the bot score is positive.
ConfidenceIsRoundedShare ==
  (call.op \in {"analyze", "analyzeLogin"} /\ outcome.kind = "return") =>
    IF "scores" \in DOMAIN outcome.value
    THEN LET b == outcome.value.scores.bot
             h == outcome.value.scores.human
             c == outcome.value.confidence
         IN /\ c \in 0..100
            /\ (b + h = 0) => c = 0
            /\ (b + h > 0) => /\ (2 * c - 1) * (b + h) <= 200 * b
                              /\ 200 * b < (2 * c + 1) * (b + h)
            /\ (h = 0 /\ b > 0) => c = 100
    ELSE outcome.value.confidence = 0

\* analyze returned 8 against 3: 72.7 rounded to 73.
ConfidenceRoundedUp ==
  /\ call.op = "analyze"
  /\ ScoredResult
  /\ outcome.value.scores = [bot |-> 8, human |-> 3]
  /\ outcome.value.confidence = 73

\* C2: in every result of analyze, isBot is true exactly when confidence exceeds
\* the decision threshold of 70.
IsBotIffAboveThreshold ==
  (call.op = "analyze" /\ outcome.kind = "return") =>
    (outcome.value.isBot <=> outcome.value.confidence > 70)

\* analyze returned a confidence of exactly 70, from a bot score of 7: not a bot.
ConfidenceAtThreshold ==
  /\ call.op = "analyze"
  /\ ScoredResult
  /\ outcome.value.scores.bot = 7
  /\ outcome.value.confidence = 70
  /\ ~outcome.value.isBot

\* C3: raising the bot score while the human score stays never lowers the
\* confidence, rounding included.
ConfidenceMonotone ==
  [][(/\ outcome'.value.scores.human = outcome.value.scores.human
      /\ outcome'.value.scores.bot >= outcome.value.scores.bot)
     => outcome'.value.confidence >= outcome.value.confidence]_vars

\* The fusion reached 5 against 3, a confidence of 62.5 rounded to 63.
FusedAboveHalf ==
  /\ call.op = "fuse"
  /\ outcome.value.scores = [bot |-> 5, human |-> 3]
  /\ outcome.value.confidence = 63

\* The automation-environment signals and their weights.
AutomationNames ==
  <<"webdriverDetected", "hasChromiumAutomation", "hasSelenium", "hasPhantom",
    "headlessChrome", "zeroWindowSize", "noPlugins">>
AutomationWeights == <<5, 3, 5, 5, 4, 3, 0>>

\* Whether the request sets an automation-environment signal.
SignalSet(name) ==
  IF name = "webdriverDetected"
  THEN "webdriverDetected" \in DOMAIN request /\ request.webdriverDetected = Bool(TRUE)
  ELSE /\ "automationFlags" \in DOMAIN request
       /\ name \in DOMAIN request.automationFlags
       /\ request.automationFlags[name] = Bool(TRUE)

\* C4: for a request with automation-environment signals only, analyze records
\* one [Automation] reason per set signal and the bot score is the sum of their
\* weights (noPlugins weighs 0); Selenium alone gives 5, 0, 100, bot; noPlugins
\* alone gives one reason and 0, 0, not a bot.
AutomationSignalsScore ==
  (/\ AnalyzeWithParser
   /\ request.t = "object"
   /\ DOMAIN request \subseteq {"t", "webdriverDetected", "automationFlags"}) =>
    /\ ScoredResult
    /\ Len(outcome.value.reasons) = Cardinality({k \in 1..7 : SignalSet(AutomationNames[k])})
    /\ \A i \in 1..Len(outcome.value.reasons) : outcome.value.reasons[i][1] = "[Automation]"
    /\ outcome.value.scores.bot =
         SumSeq([k \in 1..7 |-> IF SignalSet(AutomationNames[k]) THEN AutomationWeights[k] ELSE 0])
    /\ outcome.value.scores.human = 0
    /\ (request = SeleniumScenario) =>
         /\ outcome.value.scores.bot = 5
         /\ outcome.value.confidence = 100
         /\ outcome.value.isBot
    /\ (request = NoPluginsScenario) =>
         /\ Len(outcome.value.reasons) = 1
         /\ outcome.value.scores.bot = 0
         /\ outcome.value.confidence = 0
         /\ ~outcome.value.isBot

\* analyze scored Selenium alone.
SeleniumAloneScored ==
  /\ AnalyzeWithParser
  /\ request = SeleniumScenario
  /\ ScoredResult
  /\ outcome.value.scores = [bot |-> 5, human |-> 0]
  /\ outcome.value.isBot

\* C5: for a request holding only a trajectory of 2 points, analyze marks the
\* trajectory invalid and the too-few-points flag of weight 1 fires alone: bot
\* score 1, human score 0, one reason.
TwoPointsFlagged ==
  (AnalyzeWithParser /\ request = TwoPointScenario) =>
    /\ ScoredResult
    /\ ~outcome.value.details.trajectoryAnalysis.valid
    /\ outcome.value.scores = [bot |-> 1, human |-> 0]
    /\ outcome.value.reasons = << <<"Too few trajectory points">> >>

\* The reason of the password-mismatch flag.
MismatchReason ==
  <<"Password has uppercase/special chars but no Shift/CapsLock and not pasted">>

\* A counter of the request, 0 when absent.
Counter(name) == IF name \in DOMAIN request THEN request[name].v ELSE 0

\* Whether the reasons of the result include the mismatch.
MismatchFired ==
  \E i \in 1..Len(outcome.value.reasons) : outcome.value.reasons[i] = MismatchReason

\* C6: the password-mismatch flag fires exactly when the password is non-empty,
\* has an uppercase letter or a listed special character, the Shift count is 0
\* (the password field's count, else the form's), the CapsLock count likewise,
\* and the password was not pasted; it weighs 3; with Shift 2, CapsLock 1 and
\* 'Secret!1' it does not fire and the human score is 2 + 1.
MismatchFiresIff ==
  (AnalyzeWithParser /\ ScoredResult) =>
    LET password == IF "password" \in DOMAIN request THEN request.password.v ELSE <<>>
        needsShift == \E i \in 1..Len(password) : password[i] \in UpperCaseChars \cup SpecialChars
        shift == IF Counter("passwordShiftCount") # 0
                 THEN Counter("passwordShiftCount") ELSE Counter("shiftCount")
        capsLock == IF Counter("passwordCapsLockCount") # 0
                    THEN Counter("passwordCapsLockCount") ELSE Counter("capsLockCount")
    IN /\ MismatchFired <=> /\ password # <<>>
                            /\ needsShift
                            /\ shift = 0
                            /\ capsLock = 0
                            /\ Counter("pastePass") = 0
       /\ (request = NoShiftPasswordScenario) => outcome.value.scores.bot = 3
       /\ (request = ShiftScenario) =>
            ~MismatchFired /\ outcome.value.scores = [bot |-> 0, human |-> 3]

\* analyze flagged 'Secret!1' typed with Shift and CapsLock counts of 0.
MismatchFlagged ==
  /\ AnalyzeWithParser
  /\ request = NoShiftPasswordScenario
  /\ ScoredResult
  /\ MismatchFired
  /\ outcome.value.scores.bot = 3

\* C7: analyze called without a parser where no TypingParser is defined returns
\* isBot false, confidence 0 and no reasons, whatever the request, and raises
\* nothing.
NoParserDegrades ==
  (call.op = "analyze" /\ ~call.parser /\ call.ambient = "undefined") =>
    outcome = [kind |-> "return",
               value |-> [isBot |-> FALSE, confidence |-> 0, reasons |-> <<>>]]

\* analyze without a parser was given the Selenium request.
SeleniumWithoutParser ==
  /\ call.op = "analyze"
  /\ ~call.parser
  /\ call.ambient = "undefined"
  /\ request = SeleniumScenario
  /\ outcome.kind = "return"
  /\ ~outcome.value.isBot

\* C8: every value analyze returns has the five result fields, and generateReport
\* returns a report whenever analyze returns.
ResultAlwaysComplete ==
  /\ (call.op = "analyze" /\ outcome.kind = "return") =>
       {"isBot", "confidence", "reasons", "scores", "details"} \subseteq DOMAIN outcome.value
  /\ (call.op = "generateReport" /\ ~call.parser /\ call.ambient = "undefined") =>
       outcome.kind = "return"

\* C9: with a parser, analyze returns a result carrying scores for every request,
\* an absent one and one with a pattern that is not a string included.
NeverRaises == AnalyzeWithParser => ScoredResult

\* The five labels of the specification, in order.
FiveLabels == <<"[Username]", "[Password]", "[Trajectory]", "[Automation]", "[Events]">>

\* The position of a reason's label among the five, 0 for any other reason.
LabelOf(reason) ==
  IF \E k \in 1..5 : reason[1] = FiveLabels[k]
  THEN CHOOSE k \in 1..5 : reason[1] = FiveLabels[k]
  ELSE 0

\* C10 as stated: every reason of an analyze result starts with one of the five
\* labels, and the labels never go back.
FiveLabelGroups ==
  (AnalyzeWithParser /\ ScoredResult) =>
    /\ \A i \in 1..Len(outcome.value.reasons) : LabelOf(outcome.value.reasons[i]) > 0
    /\ \A i, j \in 1..Len(outcome.value.reasons) :
         i < j => LabelOf(outcome.value.reasons[i]) <= LabelOf(outcome.value.reasons[j])

\* The stage of analyze a reason comes from, 0 for a reason of no stage.
StageOf(reason) ==
  CASE reason[1] = "[Username]" -> 1
    [] reason[1] = "[Username SeekTime]" -> 2
    [] reason[1] = "[Password]" -> 3
    [] reason[1] = "[Password SeekTime]" -> 4
    [] reason \in {<<"Username to password too fast">>, <<"Password to login too fast">>} -> 5
    [] reason \in {<<"Too few trajectory points">>, <<"Mouse distance too short">>} -> 6
    [] reason[1] = "[Trajectory]" -> 7
    [] reason \in {<<"Username was pasted">>, <<"Password was pasted">>} -> 8
    [] reason = MismatchReason -> 9
    [] reason[1] = "[Automation]" -> 10
    [] reason[1] = "[Events]" -> 11
    [] OTHER -> 0

\* C10: the reasons of an analyze result are in detector order: the reasons
\* labelled [Username], [Username SeekTime], [Password], [Password SeekTime],
\* [Trajectory], [Automation] and [Events] form contiguous groups in that order,
\* and the timing, trajectory-sufficiency, paste and password-mismatch reasons
\* carry no label and stand at their detectors' places between the groups.
ReasonsInDetectorOrder ==
  (AnalyzeWithParser /\ ScoredResult) =>
    /\ \A i \in 1..Len(outcome.value.reasons) : StageOf(outcome.value.reasons[i]) > 0
    /\ \A i, j \in 1..Len(outcome.value.reasons) :
         i < j => StageOf(outcome.value.reasons[i]) <= StageOf(outcome.value.reasons[j])

\* analyze reported a [Trajectory] reason, then an unlabelled paste reason,
\* then an [Automation] reason.
LabelledAndPlainReasons ==
  /\ AnalyzeWithParser
  /\ ScoredResult
  /\ \E i, j, k \in 1..Len(outcome.value.reasons) :
       /\ i < j /\ j < k
       /\ outcome.value.reasons[i][1] = "[Trajectory]"
       /\ outcome.value.reasons[j] = <<"Username was pasted">>
       /\ outcome.value.reasons[k][1] = "[Automation]"

\* The number of bars in a string.
Bars(s) == Cardinality({i \in 1..Len(s) : s[i] = "|"})

\* C11: parsePattern (the legacy one too) returns null exactly for an absent or
\* empty pattern and for a string without a bar; for any other string it returns
\* a pattern whose keystrokeCount is the number of segments after the header:
\* 4 for 'v1|120,60|300,80|90,50|400,70', 1 for 'v1|'.
ParsePatternNullOrCounted ==
  (call.op \in {"parsePattern", "legacyParsePattern"} /\ request.t \in {"undefined", "string"}) =>
    /\ IF request.t = "undefined" \/ request.v = <<>> \/ Bars(request.v) = 0
       THEN outcome.kind = "null"
       ELSE /\ outcome.kind = "pattern"
            /\ outcome.keystrokeCount = Bars(request.v)
            /\ Len(outcome.keystrokes) = Bars(request.v)
    /\ (request = PatternScenario) => outcome.kind = "pattern" /\ outcome.keystrokeCount = 4
    /\ (request = PatternHeaderBar) => outcome.kind = "pattern" /\ outcome.keystrokeCount = 1

\* parsePattern decoded 'v1|' to one keystroke.
HeaderBarDecoded ==
  /\ call.op = "parsePattern"
  /\ request = PatternHeaderBar
  /\ outcome.kind = "pattern"
  /\ outcome.keystrokeCount = 1

\* The positive values of a sequence, in order.
Positive(values) == SelectSeq(values, LAMBDA v : v > 0)

\* Whether stats are the rounded mean, the extremes, the rounded population
\* deviation and the range of the values; all 0 for no values.
StatsMatch(stats, values) ==
  IF values = <<>> THEN stats = [avg |-> 0, min |-> 0, max |-> 0, std |-> 0, range |-> 0]
  ELSE LET n == Len(values)
           s1 == SumSeq(values)
           s2 == SumSeq([i \in 1..n |-> values[i] * values[i]])
       IN /\ (2 * stats.avg - 1) * n <= 2 * s1
          /\ 2 * s1 < (2 * stats.avg + 1) * n
          /\ \E i \in 1..n : values[i] = stats.min
          /\ \E i \in 1..n : values[i] = stats.max
          /\ \A i \in 1..n : stats.min <= values[i] /\ values[i] <= stats.max
          /\ stats.range = stats.max - stats.min
          /\ \/ stats.std = 0
             \/ (2 * stats.std - 1) * (2 * stats.std - 1) * n * n <= 4 * (n * s2 - s1 * s1)
          /\ 4 * (n * s2 - s1 * s1) < (2 * stats.std + 1) * (2 * stats.std + 1) * n * n

\* The seek times and the press times of the decoded keystrokes.
DecodedSeekTimes == [i \in 1..Len(outcome.keystrokes) |-> outcome.keystrokes[i].seekTime]
DecodedPressTimes == [i \in 1..Len(outcome.keystrokes) |-> outcome.keystrokes[i].pressTime]

\* C12 as stated: a sample with a seek time or a press time that is not positive
\* is left out of the aggregates of both fields.
SampleExcludedWhole ==
  (call.op = "parsePattern" /\ outcome.kind = "pattern") =>
    LET kept == SelectSeq(outcome.keystrokes, LAMBDA k : k.seekTime > 0 /\ k.pressTime > 0)
    IN /\ outcome.raw.seekTimes = [i \in 1..Len(kept) |-> kept[i].seekTime]
       /\ outcome.raw.pressTimes = [i \in 1..Len(kept) |-> kept[i].pressTime]

\* C12: in parsePattern a seek time that is not positive is left out of the seek
\* aggregates and a press time that is not positive out of the press aggregates,
\* each field on its own; the sample still counts in keystrokes and
\* keystrokeCount; a field with no positive value has stats of 0, and no positive
\* seek time gives longPauses = 0.
ValueExcludedPerField ==
  (call.op = "parsePattern" /\ outcome.kind = "pattern") =>
    /\ outcome.keystrokeCount = Len(outcome.keystrokes)
    /\ outcome.keystrokeCount = Bars(request.v)
    /\ outcome.raw.seekTimes = Positive(DecodedSeekTimes)
    /\ outcome.raw.pressTimes = Positive(DecodedPressTimes)
    /\ StatsMatch(outcome.seekTime, Positive(DecodedSeekTimes))
    /\ StatsMatch(outcome.pressTime, Positive(DecodedPressTimes))
    /\ outcome.longPauses =
         Cardinality({i \in 1..Len(outcome.keystrokes) : outcome.keystrokes[i].seekTime > 500})

\* parsePattern decoded 'v1|25,0': one keystroke, its seek time kept, its press
\* time dropped.
PressTimeDropped ==
  /\ call.op = "parsePattern"
  /\ outcome.kind = "pattern"
  /\ outcome.keystrokeCount = 1
  /\ outcome.raw.seekTimes = <<25>>
  /\ outcome.raw.pressTimes = <<>>
  /\ outcome.pressTime = [avg |-> 0, min |-> 0, max |-> 0, std |-> 0, range |-> 0]

Cross(points) ==
  (points[2].x - points[1].x) * (points[3].y - points[2].y)
  - (points[2].y - points[1].y) * (points[3].x - points[2].x)
Dot(points) ==
  (points[2].x - points[1].x) * (points[3].x - points[2].x)
  + (points[2].y - points[1].y) * (points[3].y - points[2].y)

\* C14 as stated: every trajectory of exactly 3 collinear points gets valid,
\* smoothRatio 1.0 (100 hundredths) and correctionRatio 0.
CollinearIsSmooth ==
  (call.op = "analyzeTrajectory" /\ Len(request.sample.v) = 3 /\ Cross(request.sample.v) = 0) =>
    /\ outcome.valid
    /\ outcome.smoothRatio = 100
    /\ outcome.correctionRatio = 0

\* C14: a trajectory of exactly 3 collinear points gets valid and correctionRatio
\* 0; its smoothRatio is 1.0 when the path goes on in the same direction (the
\* consecutive points distinct) and 0 when it turns back or repeats a point.
CollinearForwardIsSmooth ==
  (call.op = "analyzeTrajectory" /\ Len(request.sample.v) = 3 /\ Cross(request.sample.v) = 0) =>
    /\ outcome.valid
    /\ outcome.points = 3
    /\ outcome.correctionRatio = 0
    /\ outcome.smoothRatio = (IF Dot(request.sample.v) > 0 THEN 100 ELSE 0)

\* analyzeTrajectory summarised a straight path of three distinct points.
StraightPathSummarised ==
  /\ call.op = "analyzeTrajectory"
  /\ Cross(request.sample.v) = 0
  /\ Dot(request.sample.v) > 0
  /\ outcome.valid
  /\ outcome.smoothRatio = 100

\* C15: no step of an analyze call writes the threshold table or a request, and
\* under any interleaving of two calls each call returns the result it returns
\* when run alone, two calls on the same request returning the same result.
CallsArePure ==
  /\ [][thresholds' = thresholds /\ request' = request]_vars
  /\ [](\A i \in {1, 2} :
          call.pc[i] = StepCount + 1 => outcome[i] = analyze(request[i], TRUE))
  /\ []((call.pc = <<StepCount + 1, StepCount + 1>> /\ request[1] = request[2]) =>
          outcome[1] = outcome[2])

\* Two calls on different requests have overlapped and both have returned.
OverlappedCallsReturned ==
  /\ call.op = "concurrent"
  /\ call.interleaved
  /\ call.pc = <<StepCount + 1, StepCount + 1>>
  /\ request = <<ScriptScenario, HumanScenario>>
  /\ outcome[1].kind = "return"
  /\ outcome[2].kind = "return"
  /\ outcome[1] # outcome[2]

\* C16 as stated: whenever a field's positive seek times go to the distribution
\* detectors (more than 4 of them) and their longest run of adjacent values less
\* than 10 apart is longer than consecutiveSimilarMax, analyze reports the
\* 'consecutive similar intervals' flag of that field, identical samples included.
SimilarRunFlagged ==
  (AnalyzeWithParser /\ ScoredResult) =>
    \A field \in {<<"userPattern", "[Username SeekTime]">>, <<"passPattern", "[Password SeekTime]">>} :
      (/\ outcome.value.details[field[1]].kind = "pattern"
       /\ Len(outcome.value.details[field[1]].raw.seekTimes) > 4
       /\ SimilarRun(outcome.value.details[field[1]].raw.seekTimes, 2, 1, 1)
            > thresholds.antiBot.consecutiveSimilarMax) =>
        <<field[2], "consecutive similar intervals detected">> \in Range(outcome.value.reasons)

\* A request whose trajectory has more than 3 points, the first with a timestamp.
TimedTrajectory ==
  /\ request.t = "object"
  /\ Truthy(Get(request, "trajectory"))
  /\ Truthy(Get(request.trajectory, "sample"))
  /\ Len(request.trajectory.sample.v) > 3
  /\ request.trajectory.sample.v[1].t.t = "number"

\* The time deltas between the consecutive points of the request's trajectory.
Deltas ==
  [i \in 1..(Len(request.trajectory.sample.v) - 1) |->
     request.trajectory.sample.v[i + 1].t.v - request.trajectory.sample.v[i].t.v]

\* Whether the coefficient of variation of the values (population deviation
\* over mean) is below max hundredths.
CvBelow(values, max) ==
  LET n == Len(values)
      s1 == SumSeq(values)
      s2 == SumSeq([i \in 1..n |-> values[i] * values[i]])
  IN s1 > 0 /\ 10000 * (n * s2 - s1 * s1) < max * max * s1 * s1

\* C17 as stated: for a trajectory of more than 3 points whose first point has a
\* timestamp (0 included), intervalStats is the distribution summary of the time
\* deltas, and whenever their coefficient of variation is below
\* trajectoryIntervalCVMax (0 included) analyze reports '[Trajectory] Mouse
\* movement timing too uniform'.
UniformTimingFlagged ==
  (AnalyzeWithParser /\ ScoredResult /\ TimedTrajectory) =>
    /\ outcome.value.details.trajectoryAnalysis.intervalStats = analyzeDistribution(Deltas)
    /\ CvBelow(Deltas, thresholds.antiBot.trajectoryIntervalCVMax) =>
         <<"[Trajectory]", "Mouse movement timing too uniform">> \in Range(outcome.value.reasons)

\* Whether the request carries a positive count under one of the names.
CounterSet(names) ==
  \E name \in names : name \in DOMAIN request /\ request[name].v > 0

CounterNames ==
  {"imeUser", "usernameIMECompositionCount", "imePass", "passwordIMECompositionCount",
   "shiftCount", "passwordShiftCount", "capsLockCount", "passwordCapsLockCount"}

\* C18 as stated: on a request of human-indicator counters alone, analyze adds 3
\* to humanScore once for a positive IME count under any of its names, 2 for a
\* positive Shift count under shiftCount or passwordShiftCount, and 1 for a
\* positive CapsLock count under capsLockCount or passwordCapsLockCount.
CountersUnderEitherName ==
  (/\ AnalyzeWithParser
   /\ request.t = "object"
   /\ DOMAIN request \subseteq {"t"} \cup CounterNames) =>
    /\ ScoredResult
    /\ outcome.value.scores.human =
         (IF CounterSet({"imeUser", "usernameIMECompositionCount", "imePass",
                         "passwordIMECompositionCount"}) THEN 3 ELSE 0)
         + (IF CounterSet({"shiftCount", "passwordShiftCount"}) THEN 2 ELSE 0)
         + (IF CounterSet({"capsLockCount", "passwordCapsLockCount"}) THEN 1 ELSE 0)

\* The seek-speed flags among the bot flags of a typing analysis.
SpeedFlags(botFlags) ==
  SelectSeq(botFlags, LAMBDA f : f.reason \in {<<"Extremely short key interval">>,
                                               <<"Key interval too short">>})

\* C19: for a decoded field with keystrokes, analyzeFieldTyping gives one
\* seek-speed flag of weight 3 when seekTime.avg < 30 (an average of 0 from seek
\* times that are all non-positive included), one of weight 2 when
\* 30 <= seekTime.avg < 50 and none from 50 on; the human 'Normal key interval'
\* flag comes exactly when seekTime.avg > 80, never with a seek-speed flag.
OneSpeedFlag ==
  (call.op = "analyzeFieldTyping" /\ call.pattern.keystrokeCount > 0) =>
    /\ outcome.valid
    /\ SpeedFlags(outcome.botFlags) =
         (IF call.pattern.seekTime.avg < 30 THEN <<Flag(3, "Extremely short key interval")>>
          ELSE IF call.pattern.seekTime.avg < 50 THEN <<Flag(2, "Key interval too short")>>
          ELSE <<>>)
    /\ (\E i \in 1..Len(outcome.humanFlags) : outcome.humanFlags[i].reason = <<"Normal key interval">>)
         <=> call.pattern.seekTime.avg > 80
    /\ (\E i \in 1..Len(outcome.humanFlags) : outcome.humanFlags[i].reason = <<"Normal key interval">>)
         => SpeedFlags(outcome.botFlags) = <<>>

\* analyzeFieldTyping flagged a field whose seek times are all non-positive.
NoSeekTimeFlagged ==
  /\ call.op = "analyzeFieldTyping"
  /\ call.pattern.keystrokeCount > 0
  /\ call.pattern.raw.seekTimes = <<>>
  /\ call.pattern.seekTime.avg = 0
  /\ SpeedFlags(outcome.botFlags) = <<Flag(3, "Extremely short key interval")>>

\* The verdict of the legacy analyzeLogin on the scores of the state.
LegacyIsBot ==
  LegacyResult(Tally(outcome.value.scores.bot, outcome.value.scores.human, <<>>, NoDetails)).value.isBot

\* C20: on every pair of scores the legacy analyzeLogin sets isBot exactly when
\* botScore >= 3 or confidence > 60 and analyze exactly when confidence > 70, and
\* a true verdict of analyze implies a true verdict of analyzeLogin.
PoliciesOrdered ==
  (call.op = "fuse") =>
    /\ LegacyIsBot <=> (outcome.value.scores.bot >= 3 \/ outcome.value.confidence > 60)
    /\ outcome.value.isBot <=> outcome.value.confidence > 70
    /\ outcome.value.isBot => LegacyIsBot

\* At 3 against 3 the legacy verdict is true and the verdict of analyze false.
PoliciesDiffer ==
  /\ call.op = "fuse"
  /\ outcome.value.scores = [bot |-> 3, human |-> 3]
  /\ LegacyIsBot
  /\ ~outcome.value.isBot

\* The number of reasons of the result that carry the label.
LabelCount(label) ==
  Cardinality({i \in 1..Len(outcome.value.reasons) : outcome.value.reasons[i][1] = label})

\* The texts of the human flags, which go into no reason.
HumanFlagTexts == {"Normal key interval", "Normal key press", "Has long pauses"}

\* C21: in every result of analyze each addition to the bot score comes with one
\* reason and the human flags add none: a field's labelled reasons are as many as
\* its bot flags, no reason carries a human flag's text, a positive scores.bot
\* comes with a reason, scores.bot <= 5 * Len(reasons), and isBot comes with at
\* least one reason; the result without scores has isBot false.
BotScoreHasReasons ==
  (call.op = "analyze" /\ outcome.kind = "return") =>
    IF "scores" \notin DOMAIN outcome.value THEN ~outcome.value.isBot
    ELSE /\ outcome.value.scores.bot > 0 => outcome.value.reasons # <<>>
         /\ outcome.value.scores.bot <= 5 * Len(outcome.value.reasons)
         /\ outcome.value.isBot => Len(outcome.value.reasons) >= 1
         /\ \A i \in 1..Len(outcome.value.reasons) :
              \A j \in 1..Len(outcome.value.reasons[i]) :
                outcome.value.reasons[i][j] \notin HumanFlagTexts
         /\ "userAnalysis" \in DOMAIN outcome.value.details =>
              LabelCount("[Username]") = Len(outcome.value.details.userAnalysis.botFlags)
         /\ "passAnalysis" \in DOMAIN outcome.value.details =>
              LabelCount("[Password]") = Len(outcome.value.details.passAnalysis.botFlags)

\* analyze returned a bot verdict on a single reason of the highest weight, its
\* score of 5 at the bound.
VerdictOnOneReason ==
  /\ AnalyzeWithParser
  /\ ScoredResult
  /\ outcome.value.isBot
  /\ Len(outcome.value.reasons) = 1
  /\ outcome.value.scores.bot = 5 * Len(outcome.value.reasons)

====
